---- MODULE Spec2Model ----
(***************************************************************************)
(* Model of crimson/os/seastore Cache (src/crimson/os/seastore/cache.h):   *)
(* the extent index, the LRU, the dirty list, transactions, the read path  *)
(* (get_extent / get_extent_by_type / get_extent_if_cached / read_extent), *)
(* the write path (alloc_new_extent, duplicate_for_write, retire_extent)   *)
(* and the commit pipeline (prepare_record, complete_commit).              *)
(*                                                                         *)
(* Extents are objects with identity: an extent is an id in Ids and its    *)
(* fields are ext[id].  Ids are handed out in increasing order.            *)
(* Addresses are block numbers: absolute paddrs are > 0, the record        *)
(* relative paddrs the EPM gives to fresh extents are < 0.                 *)
(* One cooperative task per transaction; a task is suspended in at most    *)
(* one cache call at a time (call[t]).                                     *)
(***************************************************************************)
EXTENDS Integers, Sequences, FiniteSets, TLC

\* ---------------------------------------------------------------- bounds
MaxExt == 2          \* extent objects the transactions' calls create
MaxInitExt == 1      \* further extent objects the callback of init_cached_extents creates
MaxPaddr == 2        \* absolute paddrs 1..MaxPaddr
MaxLen == 3          \* extent lengths 1..MaxLen (blocks)
MaxSeq == 2          \* journal seqs 1..MaxSeq
NumTxn == 2          \* transaction objects (tasks)
capacity == 2        \* LRU capacity (blocks)
MaxBytes == 2        \* byte budgets 1..MaxBytes of get_next_dirty_extents (blocks)
MaxBatchSeq == 3     \* journal seqs 1..MaxBatchSeq of the back-reference buffer alone
MaxLaddr == 1        \* logical addresses 0..MaxLaddr of back-reference entries
MaxConflicts == 3    \* conflicts accounted in all
MaxDelta == 2        \* deltas -MaxDelta..MaxDelta of update_tree_extents_num
MaxCount == 2        \* tree extent counters kept within -MaxCount..MaxCount

JOURNAL_SEQ_MIN == 0 \* last_commit before the first commit
\* the seq that stands for no seq; above every commit seq
JOURNAL_SEQ_NULL == MaxSeq + MaxBatchSeq + 1

\* the extent type a transaction allocates with a given length
AllocType(len) == IF len = 1 THEN "ROOT" ELSE "DATA"
Ids == 1..(MaxExt + MaxInitExt)
NoId == 0
Txns == 1..NumTxn
Paddrs == 1..MaxPaddr
Lens == 1..MaxLen
Seqs == 1..MaxSeq
\* the seqs a flusher asks the dirty extents up to
UptoSeqs == 1..(MaxSeq + 1)
\* the seqs of the commits the back-reference buffer alone is driven with
BatchSeqs == 1..MaxBatchSeq
\* the seqs a trimmer trims the back-reference buffer to
TrimSeqs == 0..(MaxBatchSeq + 1)
Laddrs == 0..MaxLaddr
\* the bounds a range of paddrs is asked with
RangePaddrs == 0..(MaxPaddr + 1)
\* the byte budgets a flusher gives
Budgets == 1..MaxBytes
\* the type of the block stored at an absolute paddr (what a reader asks for)
DiskType(p) == IF p % 2 = 1 THEN "DATA" ELSE "LADDR_LEAF"
\* the length of the block stored at an absolute paddr (what a reader asks for)
DiskLen(p) == 1

VARIABLES
  ext,          \* id -> fields of the CachedExtent object (state "NONE": not created)
  index,        \* Cache::extents: the set of extents linked into the ExtentIndex
  lru,          \* Cache::LRU::lru, front (least recent) first
  pins,         \* id -> references the LRU holds on the extent
  dangling,     \* extents whose last reference move_to_top released
  contents,     \* Cache::LRU::contents
  dirty,        \* Cache::dirty, ordered by dirty_from
  txn,          \* t -> Transaction
  call,         \* t -> the cache call task t is suspended in
  reading,      \* extents with an EPM read in flight
  epm_reads,    \* id -> number of EPM reads issued on that extent
  last_commit,  \* Cache::last_commit
  backrefs_by_seq,       \* backref_cache_t::backrefs_by_seq: seq -> entries
  backref_inserted_set,  \* Cache::backref_inserted_set
  backref_remove_set,    \* Cache::backref_remove_set
  stats         \* Cache::stats: the conflict counters and the tree extent counters

vars == <<ext, index, lru, pins, dangling, contents, dirty, txn, call,
          reading, epm_reads,
          last_commit, backrefs_by_seq, backref_inserted_set,
          backref_remove_set, stats>>

\* ------------------------------------------------------------ structures
NoExt == [paddr |-> 0, len |-> 0, type |-> "NONE", state |-> "NONE",
          dirty_from |-> 0, prior |-> NoId, io |-> FALSE]

NoTxn == [status |-> "none", read_set |-> {}, fresh_block_list |-> <<>>,
          mutated_block_list |-> <<>>, retired_set |-> {},
          view_seq |-> 0, conflicted |-> FALSE, root |-> NoId]

NoCall == [op |-> "none", kind |-> "none", e |-> NoId, p |-> 0]

\* what a handler hands back to its caller: kind "ref" (with ref), "null",
\* "done", an error ("IoError", "TransactionConflict"), "abort" (a failed
\* assertion) or "suspended" (the caller waits on extent ref)
NoRet == [kind |-> "none", ref |-> NoId]

\* The whole state as one record, so that a handler is a composition of
\* the helpers it calls; ret is what the handler returns.
Here == [ext |-> ext, index |-> index, lru |-> lru, pins |-> pins,
         dangling |-> dangling, contents |-> contents,
         dirty |-> dirty, txn |-> txn, call |-> call, reading |-> reading,
         epm_reads |-> epm_reads, last_commit |-> last_commit,
         backrefs_by_seq |-> backrefs_by_seq,
         backref_inserted_set |-> backref_inserted_set,
         backref_remove_set |-> backref_remove_set,
         stats |-> stats,
         ret |-> NoRet]

SeqToSet(q) == {q[i] : i \in 1..Len(q)}

\* the extents whose reference count is not zero: the LRU (its pins) and
\* the dirty list hold a reference (intrusive_ptr_add_ref), and so do an
\* in-flight read, the transactions' sets and a suspended call; the index
\* holds none
Referenced(s) ==
  LET held == {e \in Ids : s.pins[e] > 0} \union SeqToSet(s.dirty) \union s.reading
              \union UNION {s.txn[t].read_set \union s.txn[t].retired_set
                            \union SeqToSet(s.txn[t].fresh_block_list)
                            \union SeqToSet(s.txn[t].mutated_block_list) : t \in Txns}
              \union {s.call[t].e : t \in Txns}
              \union {s.txn[t].root : t \in Txns}
  IN held \union {s.ext[e].prior : e \in held \ {NoId}}

\* an extent whose last reference is released is destroyed, which unlinks
\* it from the index
Destroyed == [NoExt EXCEPT !.state = "DESTROYED"]

\* the state a handler leaves once the extents it released are destroyed
settle(s) ==
  LET live == Referenced(s)
  IN [s EXCEPT !.ext = [e \in Ids |-> IF s.ext[e].state # "NONE" /\ e \notin live
                                      THEN Destroyed ELSE s.ext[e]],
               !.index = s.index \cap live,
               !.epm_reads = [e \in Ids |-> IF e \in live THEN s.epm_reads[e] ELSE 0]]

Becomes(s) ==
  \E n \in {settle(s)} :
     /\ ext' = n.ext /\ index' = n.index /\ lru' = n.lru
     /\ pins' = n.pins /\ dangling' = n.dangling
     /\ contents' = n.contents /\ dirty' = n.dirty /\ txn' = n.txn
     /\ call' = n.call /\ reading' = n.reading
     /\ epm_reads' = n.epm_reads
     /\ last_commit' = n.last_commit
     /\ backrefs_by_seq' = n.backrefs_by_seq
     /\ backref_inserted_set' = n.backref_inserted_set
     /\ backref_remove_set' = n.backref_remove_set
     /\ stats' = n.stats

Without(q, e) == SelectSeq(q, LAMBDA x : x # e)

RECURSIVE SumLen(_, _)
SumLen(x, q) == IF q = <<>> THEN 0 ELSE x[Head(q)].len + SumLen(x, Tail(q))

\* the first unused extent id (make_cached_extent_ref)
Allocated(s) == {e \in Ids : s.ext[e].state # "NONE"}
CanAlloc(s) == Cardinality(Allocated(s)) < MaxExt
NewId(s) == CHOOSE e \in Ids \ Allocated(s) : \A f \in Ids \ Allocated(s) : e <= f

\* ------------------------------------------------- CachedExtent predicates
is_placeholder(s, e) == s.ext[e].type = "RETIRED_PLACEHOLDER"
is_valid(s, e) == s.ext[e].state # "INVALID"
is_clean(s, e) == s.ext[e].state \in {"CLEAN", "CLEAN_PENDING"}
is_dirty(s, e) == s.ext[e].state = "DIRTY"
is_pending(s, e) == s.ext[e].state \in {"MUTATION_PENDING", "INITIAL_WRITE_PENDING"}
is_absolute(p) == p > 0
\* primary_ref_list_hook is the one hook of the LRU list and of the dirty list
is_linked(s, e) == e \in SeqToSet(s.lru) \/ e \in SeqToSet(s.dirty)

\* ------------------------------------------------------------ ExtentIndex
find_offset(s, p) == {e \in s.index : s.ext[e].paddr = p}
index_insert(s, e) == [s EXCEPT !.index = @ \union {e}]
index_erase(s, e) == [s EXCEPT !.index = @ \ {e}]
\* swap under the paddr of old
index_replace(s, new, old) ==
  [s EXCEPT !.index = (@ \ find_offset(s, s.ext[old].paddr)) \union {new}]

\* ------------------------------------------------------------------- LRU
\* lru.erase(lru.s_iterator_to(extent)): unlinks the extent's list hook
lru_erase(s, e) == [s EXCEPT !.lru = Without(@, e), !.dirty = Without(@, e)]

\* the LRU's calls of intrusive_ptr_add_ref and intrusive_ptr_release
intrusive_ptr_add_ref(s, e) == [s EXCEPT !.pins[e] = @ + 1]
intrusive_ptr_release(s, e) == [s EXCEPT !.pins[e] = @ - 1]

\* a removal from the LRU that also takes the extent out of the index
remove_from_lru_unindexed(s, e) ==
  IF is_linked(s, e)
  THEN index_erase(intrusive_ptr_release(
         [lru_erase(s, e) EXCEPT !.contents = @ - s.ext[e].len], e), e)
  ELSE s

remove_from_lru(s, e) ==
  IF is_linked(s, e)
  THEN intrusive_ptr_release(
         [lru_erase(s, e) EXCEPT !.contents = @ - s.ext[e].len], e)
  ELSE s

\* a trim that evicts at most one extent
trim_to_capacity_once(s) ==
  IF s.contents > capacity /\ s.lru # <<>>
  THEN remove_from_lru(s, Head(s.lru))
  ELSE s

RECURSIVE trim_to_capacity(_)
trim_to_capacity(s) ==
  IF s.contents > capacity /\ s.lru # <<>>
  THEN trim_to_capacity(remove_from_lru(s, Head(s.lru)))
  ELSE s

add_to_lru(s, e) ==
  trim_to_capacity(
    IF ~is_linked(s, e)
    THEN [intrusive_ptr_add_ref(s, e) EXCEPT !.contents = @ + s.ext[e].len,
                                             !.lru = Append(@, e)]
    ELSE s)

\* a move that leaves an extent already on the list where it is
move_to_top_in_place(s, e) == add_to_lru(s, e)

\* the extent is used after the release: if that release was of its last
\* reference, the extent is gone while it is being moved
released(s, e) ==
  IF e \in Referenced(s) THEN s ELSE [s EXCEPT !.dangling = @ \union {e}]

\* a move that keeps the reference of the erased link
move_to_top_unreleased(s, e) ==
  add_to_lru(
    IF is_linked(s, e)
    THEN [lru_erase(s, e) EXCEPT !.contents = @ - s.ext[e].len]
    ELSE s, e)

move_to_top(s, e) ==
  add_to_lru(
    IF is_linked(s, e)
    THEN [released(intrusive_ptr_release(lru_erase(s, e), e), e)
            EXCEPT !.contents = @ - s.ext[e].len]
    ELSE s, e)

\* a touch that moves every extent to the top
touch_extent_unchecked(s, e) == move_to_top(s, e)

touch_extent(s, e) ==
  IF is_clean(s, e) /\ ~is_placeholder(s, e) THEN move_to_top(s, e) ELSE s

\* ------------------------------------------------------------ dirty list
\* position of e in the list ordered by (dirty_from, paddr)
dirty_before(s, a, b) ==
  \/ s.ext[a].dirty_from < s.ext[b].dirty_from
  \/ /\ s.ext[a].dirty_from = s.ext[b].dirty_from
     /\ s.ext[a].paddr < s.ext[b].paddr

add_to_dirty(s, e) ==
  LET d == Without(s.dirty, e)
      front == SelectSeq(d, LAMBDA x : dirty_before(s, x, e))
      back == SelectSeq(d, LAMBDA x : ~dirty_before(s, x, e))
  IN [s EXCEPT !.dirty = front \o <<e>> \o back]

remove_from_dirty(s, e) ==
  IF is_dirty(s, e) THEN [s EXCEPT !.dirty = Without(@, e)] ELSE s

\* ----------------------------------------------------------- Transaction
write_set(s, t) ==
  SeqToSet(s.txn[t].fresh_block_list) \union SeqToSet(s.txn[t].mutated_block_list)

at(s, S, p) == {e \in S : s.ext[e].paddr = p}

\* Transaction::get_extent: RETIRED, PRESENT or ABSENT
txn_get_extent(s, t, p) ==
  IF at(s, s.txn[t].retired_set, p) # {} THEN "RETIRED"
  ELSE IF at(s, write_set(s, t), p) # {} THEN "PRESENT"
  ELSE IF at(s, s.txn[t].read_set, p) # {} THEN "PRESENT"
  ELSE "ABSENT"

\* the reference Transaction::get_extent hands out with PRESENT
txn_ref(s, t, p) ==
  IF at(s, write_set(s, t), p) # {}
  THEN CHOOSE e \in at(s, write_set(s, t), p) : TRUE
  ELSE CHOOSE e \in at(s, s.txn[t].read_set, p) : TRUE

add_to_read_set(s, t, e) == [s EXCEPT !.txn[t].read_set = @ \union {e}]
add_to_retired_set(s, t, e) == [s EXCEPT !.txn[t].retired_set = @ \union {e}]

\* CachedExtent::transactions: the transactions with e in their read set
transactions(s, e) == {t \in Txns : e \in s.txn[t].read_set}

\* Transaction::replace_placeholder: t's entries for the placeholder are
\* rewritten to the extent that replaces it
replace_placeholder(s, t, placeholder, e) ==
  [s EXCEPT !.txn[t].read_set = (@ \ {placeholder}) \union {e},
            !.txn[t].retired_set =
               IF placeholder \in @ THEN (@ \ {placeholder}) \union {e} ELSE @]

\* ------------------------------------------------------ Cache (internals)
\* query_cache that never finds the extent
query_cache_misses(s, p) == NoId

query_cache(s, p) ==
  IF find_offset(s, p) # {} THEN CHOOSE e \in find_offset(s, p) : TRUE ELSE NoId

add_extent(s, e) ==
  LET s1 == index_insert(s, e)
  IN IF is_dirty(s1, e) THEN add_to_dirty(s1, e) ELSE touch_extent(s1, e)

\* a removal that unlinks the extent from its list and leaves it indexed
remove_extent_indexed(s, e) ==
  IF is_dirty(s, e) THEN remove_from_dirty(s, e)
  ELSE IF is_clean(s, e) /\ ~is_placeholder(s, e) THEN remove_from_lru(s, e) ELSE s

remove_extent(s, e) ==
  LET s1 == IF is_dirty(s, e) THEN remove_from_dirty(s, e)
            ELSE IF is_clean(s, e) /\ ~is_placeholder(s, e)
                 THEN remove_from_lru(s, e) ELSE s
  IN index_erase(s1, e)

mark_transaction_conflicted(s, t) == [s EXCEPT !.txn[t].conflicted = TRUE]

RECURSIVE mark_all_conflicted(_, _)
mark_all_conflicted(s, T) ==
  IF T = {} THEN s
  ELSE LET t == CHOOSE x \in T : TRUE
       IN mark_all_conflicted(mark_transaction_conflicted(s, t), T \ {t})

\* invalidate_extent(t, extent): every other transaction that read the
\* extent is conflicted, and the extent is INVALID
invalidate_extent(s, t, e) ==
  [mark_all_conflicted(s, transactions(s, e) \ {t}) EXCEPT !.ext[e].state = "INVALID"]

\* ------------------------------------------------------------- read path
\* the call of task t returns
returns(s, t, op, p, kind, ref) ==
  [s EXCEPT !.call[t] = NoCall, !.ret = [kind |-> kind, ref |-> ref]]

\* the call of task t suspends on extent e: kind "read" (it issued the EPM
\* read) or "wait" (it waits on the extent's io latch)
suspends(s, t, op, p, kind, e) ==
  [s EXCEPT !.call[t] = [op |-> op, kind |-> kind, e |-> e, p |-> p],
            !.ret = [kind |-> "suspended", ref |-> e]]

\* a wait that hands the reference back whatever the latch says
wait_io_unlatched(s, t, op, p, e) == returns(s, t, op, p, "ref", e)

\* ret->wait_io().then(return ret)
wait_io(s, t, op, p, e) ==
  IF s.ext[e].io THEN suspends(s, t, op, p, "wait", e)
  ELSE returns(s, t, op, p, "ref", e)

\* read_extent, up to the suspension in epm.read
read_extent(s, t, op, p, e) ==
  suspends([s EXCEPT !.ext[e].io = TRUE,
                     !.reading = @ \union {e},
                     !.epm_reads[e] = @ + 1],
           t, op, p, "read", e)

\* the on_cache callback of the transactional reads
on_cache(s, t, e) == touch_extent(add_to_read_set(s, t, e), e)

make_cached_extent_ref(s, e, p, len, type, state) ==
  [s EXCEPT !.ext[e] = [paddr |-> p, len |-> len, type |-> type, state |-> state,
                        dirty_from |-> 0, prior |-> NoId, io |-> FALSE]]

RECURSIVE replace_in_transactions(_, _, _)
replace_in_transactions(s, cached, e) ==
  IF transactions(s, cached) = {} THEN s
  ELSE LET t == CHOOSE x \in transactions(s, cached) : TRUE
       IN replace_in_transactions(replace_placeholder(s, t, cached, e), cached, e)

\* Cache::get_extent, the extent is absent: a new extent is added and read
get_extent_absent(s, t, op, p, len, type) ==
  LET e == NewId(s)
      new == make_cached_extent_ref(s, e, p, len, type, "CLEAN_PENDING")
  IN read_extent(on_cache(add_extent(new, e), t, e), t, op, p, e)

\* a placeholder branch that leaves the transactions on the placeholder
get_extent_placeholder_unmigrated(s, t, op, p, len, type) ==
  LET cached == query_cache(s, p)
      e == NewId(s)
      new == make_cached_extent_ref(s, e, p, len, type, "CLEAN_PENDING")
      s1 == on_cache(index_replace(new, e, cached), t, e)
      s3 == [s1 EXCEPT !.ext[cached].state = "INVALID"]
  IN read_extent(s3, t, op, p, e)

\* Cache::get_extent, a placeholder is cached: a new extent replaces it
get_extent_placeholder(s, t, op, p, len, type) ==
  LET cached == query_cache(s, p)
      e == NewId(s)
      new == make_cached_extent_ref(s, e, p, len, type, "CLEAN_PENDING")
      s1 == on_cache(index_replace(new, e, cached), t, e)
      s2 == replace_in_transactions(s1, cached, e)
      s3 == [s2 EXCEPT !.ext[cached].state = "INVALID"]
  IN read_extent(s3, t, op, p, e)

\* a present branch that reads an extent whose read is in flight again
get_extent_present_rereads(s, t, op, p, len, type) ==
  LET cached == query_cache(s, p)
  IN IF s.ext[cached].state = "CLEAN_PENDING"
     THEN read_extent(on_cache(s, t, cached), t, op, p, cached)
     ELSE wait_io(on_cache(s, t, cached), t, op, p, cached)

\* Cache::get_extent, a real extent is cached
get_extent_present(s, t, op, p, len, type) ==
  LET cached == query_cache(s, p)
  IN wait_io(on_cache(s, t, cached), t, op, p, cached)

\* Cache::get_extent(offset, length, p_metric_key, extent_init_func, on_cache)
get_extent(s, t, op, p, len, type) ==
  LET cached == query_cache(s, p)
  IN IF cached = NoId THEN get_extent_absent(s, t, op, p, len, type)
     ELSE IF s.ext[cached].type = "RETIRED_PLACEHOLDER"
     THEN get_extent_placeholder(s, t, op, p, len, type)
     ELSE get_extent_present(s, t, op, p, len, type)

\* whether get_extent creates an extent for p
get_extent_allocates(s, p) ==
  query_cache(s, p) = NoId \/ s.ext[query_cache(s, p)].type = "RETIRED_PLACEHOLDER"

\* ------------------------------------------------------------ write path
\* the record relative paddr the EPM gives to the next fresh extent of t
epm_alloc_paddr(s, t) == 0 - (1 + SumLen(s.ext, s.txn[t].fresh_block_list))

\* an allocation that links the fresh extent into the index at once
alloc_new_extent_indexed(s, t, len, type) ==
  LET e == NewId(s)
      s1 == make_cached_extent_ref(s, e, epm_alloc_paddr(s, t), len, type,
                                   "INITIAL_WRITE_PENDING")
      s2 == [index_insert(s1, e) EXCEPT !.txn[t].fresh_block_list = Append(@, e)]
  IN returns(s2, t, "alloc_new_extent", s2.ext[e].paddr, "ref", e)

alloc_new_extent(s, t, len, type) ==
  LET e == NewId(s)
      s1 == make_cached_extent_ref(s, e, epm_alloc_paddr(s, t), len, type,
                                   "INITIAL_WRITE_PENDING")
      s2 == [s1 EXCEPT !.txn[t].fresh_block_list = Append(@, e)]
  IN returns(s2, t, "alloc_new_extent", s2.ext[e].paddr, "ref", e)

\* the copies of i that t is already mutating
mutating(s, t, i) ==
  {n \in SeqToSet(s.txn[t].mutated_block_list) : s.ext[n].prior = i}

\* a duplication that copies the source on every call it has room for
duplicate_for_write_again(s, t, i) ==
  IF is_pending(s, i) \/ ~CanAlloc(s)
  THEN returns(s, t, "duplicate_for_write", s.ext[i].paddr, "ref", i)
  ELSE LET e == NewId(s)
           s1 == [s EXCEPT !.ext[e] = [s.ext[i] EXCEPT !.state = "MUTATION_PENDING",
                                                       !.prior = i, !.io = FALSE]]
           s2 == [s1 EXCEPT !.txn[t].mutated_block_list = Append(@, e)]
       IN returns(s2, t, "duplicate_for_write", s.ext[i].paddr, "ref", e)

duplicate_for_write(s, t, i) ==
  IF is_pending(s, i)
  THEN returns(s, t, "duplicate_for_write", s.ext[i].paddr, "ref", i)
  ELSE IF mutating(s, t, i) # {}
  THEN returns(s, t, "duplicate_for_write", s.ext[i].paddr, "ref",
               CHOOSE n \in mutating(s, t, i) : TRUE)
  ELSE LET e == NewId(s)
           s1 == [s EXCEPT !.ext[e] = [s.ext[i] EXCEPT !.state = "MUTATION_PENDING",
                                                       !.prior = i, !.io = FALSE]]
           s2 == [s1 EXCEPT !.txn[t].mutated_block_list = Append(@, e)]
       IN returns(s2, t, "duplicate_for_write", s.ext[i].paddr, "ref", e)

retire_extent(s, t, ref) ==
  returns(add_to_retired_set(s, t, ref), t, "retire_extent", s.ext[ref].paddr,
          "done", ref)

\* retire_extent_addr once the address is known not to be RETIRED in t
retire_extent_addr(s, t, p, len) ==
  LET cached == query_cache(s, p)
      e == NewId(s)
  IN IF txn_get_extent(s, t, p) = "PRESENT"
     THEN returns(add_to_retired_set(s, t, txn_ref(s, t, p)), t,
                  "retire_extent_addr", p, "done", txn_ref(s, t, p))
     ELSE IF cached = NoId
     THEN \* pure address retirement: a placeholder stands for the address
          LET s1 == make_cached_extent_ref(s, e, p, len, "RETIRED_PLACEHOLDER", "CLEAN")
              s2 == add_to_read_set(add_extent(s1, e), t, e)
          IN returns(add_to_retired_set(s2, t, e), t, "retire_extent_addr", p, "done", e)
     ELSE IF is_placeholder(s, cached)
     THEN returns(add_to_retired_set(add_to_read_set(s, t, cached), t, cached),
                  t, "retire_extent_addr", p, "done", cached)
     ELSE LET s1 == add_to_read_set(s, t, cached)
          IN IF s1.ext[cached].io
             THEN suspends(s1, t, "retire_extent_addr", p, "wait", cached)
             ELSE returns(add_to_retired_set(s1, t, cached), t,
                          "retire_extent_addr", p, "done", cached)

\* ------------------------------------------------------------ dirty queries
\* std::optional<journal_seq_t>: <<>> is std::nullopt, <<seq>> a value
nullopt == <<>>

\* a query that answers with the newest dirty extent
get_oldest_dirty_from_back(s) ==
  IF s.dirty = <<>> THEN nullopt
  ELSE LET oldest == s.ext[s.dirty[Len(s.dirty)]].dirty_from
       IN IF oldest = JOURNAL_SEQ_NULL THEN nullopt ELSE <<oldest>>

get_oldest_dirty_from(s) ==
  IF s.dirty = <<>> THEN nullopt
  ELSE LET oldest == s.ext[Head(s.dirty)].dirty_from
       IN IF oldest = JOURNAL_SEQ_NULL THEN nullopt ELSE <<oldest>>

\* the longest prefix of list q whose extents became dirty before seq and
\* whose lengths fit the byte budget
RECURSIVE next_dirty(_, _, _, _)
next_dirty(s, q, seq, budget) ==
  IF q = <<>> THEN <<>>
  ELSE IF s.ext[Head(q)].dirty_from >= seq \/ s.ext[Head(q)].len > budget THEN <<>>
  ELSE <<Head(q)>> \o next_dirty(s, Tail(q), seq, budget - s.ext[Head(q)].len)

RECURSIVE add_all_to_read_set(_, _, _)
add_all_to_read_set(s, t, q) ==
  IF q = <<>> THEN s
  ELSE add_all_to_read_set(add_to_read_set(s, t, Head(q)), t, Tail(q))

\* a flush source that also hands out the extents that became dirty at seq
get_next_dirty_extents_upto(s, t, seq, max_bytes) ==
  LET cand == next_dirty(s, s.dirty, seq + 1, max_bytes)
  IN [add_all_to_read_set(s, t, cand) EXCEPT
        !.call[t] = NoCall, !.ret = [kind |-> "list", ref |-> cand]]

get_next_dirty_extents(s, t, seq, max_bytes) ==
  LET cand == next_dirty(s, s.dirty, seq, max_bytes)
  IN [add_all_to_read_set(s, t, cand) EXCEPT
        !.call[t] = NoCall, !.ret = [kind |-> "list", ref |-> cand]]

\* ------------------------------------------------------- commit pipeline
\* a validation that lets every read set through
read_set_valid_unchecked(s, t) == TRUE

read_set_valid(s, t) ==
  ~s.txn[t].conflicted /\ \A e \in s.txn[t].read_set : is_valid(s, e)

RECURSIVE set_io_wait(_, _)
set_io_wait(s, S) ==
  IF S = {} THEN s
  ELSE LET e == CHOOSE x \in S : TRUE
       IN set_io_wait([s EXCEPT !.ext[e].io = TRUE], S \ {e})

prepare_record(s, t) ==
  IF ~read_set_valid(s, t)
  THEN returns([s EXCEPT !.txn[t].status = "rejected"], t, "prepare_record", 0,
               "TransactionConflict", NoId)
  ELSE returns([set_io_wait(s, write_set(s, t)) EXCEPT !.txn[t].status = "prepared"],
               t, "prepare_record", 0, "done", NoId)

\* complete_commit step 1 for one retired extent: it leaves the index and
\* is INVALID; the placeholder of a pure address retirement is installed
commit_retire_extent(s, t, r) ==
  IF is_placeholder(s, r) THEN add_extent(s, r)
  ELSE invalidate_extent(remove_extent(s, r), t, r)

RECURSIVE commit_retire_all(_, _, _)
commit_retire_all(s, t, R) ==
  IF R = {} THEN s
  ELSE LET r == CHOOSE y \in R : TRUE
       IN commit_retire_all(commit_retire_extent(s, t, r), t, R \ {r})

\* the final paddrs of the fresh extents of list q placed from addr on
RECURSIVE final_paddrs(_, _, _)
final_paddrs(s, q, addr) ==
  IF q = <<>> THEN <<>>
  ELSE <<addr>> \o final_paddrs(s, Tail(q), addr + s.ext[Head(q)].len)

is_root(s, e) == s.ext[e].type = "ROOT"

\* a step 2 that places every fresh extent at the start of the record
RECURSIVE commit_fresh_unadvanced(_, _, _, _)
commit_fresh_unadvanced(s, q, addr, seq) ==
  IF q = <<>> THEN s
  ELSE LET f == Head(q)
           s1 == [s EXCEPT !.ext[f].paddr = addr,
                           !.ext[f].state = IF is_root(s, f) THEN "DIRTY" ELSE "CLEAN",
                           !.ext[f].dirty_from = IF is_root(s, f) THEN seq ELSE @,
                           !.ext[f].io = FALSE]
       IN commit_fresh_unadvanced(add_extent(s1, f), Tail(q), addr, seq)

\* complete_commit step 2
RECURSIVE commit_fresh(_, _, _, _)
commit_fresh(s, q, addr, seq) ==
  IF q = <<>> THEN s
  ELSE LET f == Head(q)
           s1 == [s EXCEPT !.ext[f].paddr = addr,
                           !.ext[f].state = IF is_root(s, f) THEN "DIRTY" ELSE "CLEAN",
                           !.ext[f].dirty_from = IF is_root(s, f) THEN seq ELSE @,
                           !.ext[f].io = FALSE]
       IN commit_fresh(add_extent(s1, f), Tail(q), addr + s.ext[f].len, seq)

\* a step 3 that stamps the commit seq on every mutated copy
commit_replace_extent_restamped(s, t, next, seq) ==
  LET prev == s.ext[next].prior
      s1 == IF is_dirty(s, prev) THEN remove_from_dirty(s, prev)
            ELSE IF is_clean(s, prev) THEN remove_from_lru(s, prev) ELSE s
      s2 == invalidate_extent(index_replace(s1, next, prev), t, prev)
      s3 == [s2 EXCEPT !.ext[next].state = "DIRTY",
                       !.ext[next].dirty_from = seq,
                       !.ext[next].io = FALSE]
  IN add_to_dirty(s3, next)

\* complete_commit step 3 for one (prev, next) pair
commit_replace_extent(s, t, next, seq) ==
  LET prev == s.ext[next].prior
      was_dirty == is_dirty(s, prev)
      s1 == IF was_dirty THEN remove_from_dirty(s, prev)
            ELSE IF is_clean(s, prev) THEN remove_from_lru(s, prev) ELSE s
      s2 == invalidate_extent(index_replace(s1, next, prev), t, prev)
      s3 == [s2 EXCEPT !.ext[next].state = "DIRTY",
                       !.ext[next].dirty_from =
                          IF was_dirty THEN s.ext[prev].dirty_from ELSE seq,
                       !.ext[next].io = FALSE]
  IN add_to_dirty(s3, next)

RECURSIVE commit_mutations(_, _, _, _)
commit_mutations(s, t, q, seq) ==
  IF q = <<>> THEN s
  ELSE commit_mutations(commit_replace_extent(s, t, Head(q), seq), t, Tail(q), seq)

\* the extents of the model carry no logical address: their entries have 0
backref_entry(s, e, seq) ==
  [paddr |-> s.ext[e].paddr, laddr |-> 0, len |-> s.ext[e].len,
   type |-> s.ext[e].type, seq |-> seq]

\* boost::intrusive::set keyed by operator< on paddr: an entry whose paddr
\* is already in the set is not linked
set_insert(set, new) ==
  set \union {x \in new : \A y \in set : y.paddr # x.paddr}

\* complete_commit step 4: backref_batch_update
backref_batch_update(s, inserted, removed, seq) ==
  [s EXCEPT !.backref_inserted_set = set_insert(@, inserted),
            !.backref_remove_set = set_insert(@, removed),
            !.backrefs_by_seq =
               [k \in DOMAIN s.backrefs_by_seq \union {seq} |->
                  IF k = seq
                  THEN (IF seq \in DOMAIN s.backrefs_by_seq
                        THEN s.backrefs_by_seq[seq] ELSE {})
                       \union inserted \union removed
                  ELSE s.backrefs_by_seq[k]]]

\* ------------------------------------------------- back-reference buffer
MaxKey(m) == CHOOSE k \in DOMAIN m : \A j \in DOMAIN m : j <= k
MinKey(m) == CHOOSE k \in DOMAIN m : \A j \in DOMAIN m : k <= j

\* a trim whose batches leave the buffer while their entries stay linked
\* in the two sets (hooks without auto_unlink)
erase_batches_linked(s, gone) ==
  [s EXCEPT !.backrefs_by_seq = [k \in DOMAIN @ \ gone |-> @[k]]]

\* erasing the batches with the keys gone destroys the entries they own
\* (backref_buf_t::backrefs), and a destroyed entry unlinks itself from the
\* set it is in (link_mode<auto_unlink>)
erase_batches(s, gone) ==
  LET dead == UNION {s.backrefs_by_seq[k] : k \in gone}
  IN [s EXCEPT !.backrefs_by_seq = [k \in DOMAIN @ \ gone |-> @[k]],
               !.backref_inserted_set = @ \ dead,
               !.backref_remove_set = @ \ dead]

\* a trim that erases up to lower_bound(trim_to): the batch of trim_to stays
trim_backref_bufs_below(s, trim_to, asserts) ==
  IF DOMAIN s.backrefs_by_seq = {} THEN [s EXCEPT !.ret = [kind |-> "done", ref |-> NoId]]
  ELSE IF asserts /\ MaxKey(s.backrefs_by_seq) < trim_to
       THEN [s EXCEPT !.ret = [kind |-> "abort", ref |-> NoId]]
       ELSE [erase_batches(s, {j \in DOMAIN s.backrefs_by_seq : j < trim_to})
               EXCEPT !.ret = [kind |-> "done", ref |-> NoId]]

\* trim_backref_bufs: nothing on an empty buffer; the assert on the largest
\* key (checked when asserts are compiled in); erase [begin, upper_bound(trim_to))
trim_backref_bufs(s, trim_to, asserts) ==
  IF DOMAIN s.backrefs_by_seq = {} THEN [s EXCEPT !.ret = [kind |-> "done", ref |-> NoId]]
  ELSE IF asserts /\ MaxKey(s.backrefs_by_seq) < trim_to
       THEN [s EXCEPT !.ret = [kind |-> "abort", ref |-> NoId]]
       ELSE [erase_batches(s, {j \in DOMAIN s.backrefs_by_seq : j <= trim_to})
               EXCEPT !.ret = [kind |-> "done", ref |-> NoId]]

\* the oldest seq read from the last batch of the buffer
get_oldest_backref_dirty_from_last(s) ==
  IF DOMAIN s.backrefs_by_seq = {} THEN nullopt
  ELSE LET oldest == MaxKey(s.backrefs_by_seq)
       IN IF oldest = JOURNAL_SEQ_NULL THEN nullopt ELSE <<oldest>>

\* get_oldest_backref_dirty_from: the key of begin(), nullopt when the
\* buffer is empty or the key is JOURNAL_SEQ_NULL
get_oldest_backref_dirty_from(s) ==
  IF DOMAIN s.backrefs_by_seq = {} THEN nullopt
  ELSE LET oldest == MinKey(s.backrefs_by_seq)
       IN IF oldest = JOURNAL_SEQ_NULL THEN nullopt ELSE <<oldest>>

\* a paddr-ordered set, begin() first
RECURSIVE in_paddr_order(_)
in_paddr_order(set) ==
  IF set = {} THEN <<>>
  ELSE LET first == CHOOSE x \in set : \A y \in set : x.paddr <= y.paddr
       IN <<first>> \o in_paddr_order(set \ {first})

\* lower_bound(p, cmp_t()): the position of the first entry whose paddr is
\* not below p, end() (one past the last) when there is none
lower_bound(q, p) ==
  IF \E i \in 1..Len(q) : q[i].paddr >= p
  THEN CHOOSE i \in 1..Len(q) :
         /\ q[i].paddr >= p
         /\ \A j \in 1..(i - 1) : q[j].paddr < p
  ELSE Len(q) + 1

\* upper_bound(p, cmp_t()): the position of the first entry whose paddr is above p
upper_bound(q, p) == lower_bound(q, p + 1)

\* res.emplace(it->paddr, it->laddr, it->len, it->type, it->seq)
backref_copy(x) ==
  [paddr |-> x.paddr, laddr |-> x.laddr, len |-> x.len, type |-> x.type, seq |-> x.seq]

\* the loop from start_iter to end_iter walks off end() when start_iter is
\* behind end_iter: the calls are made with ranges for which it is not
range_defined(set, start, end) ==
  lower_bound(in_paddr_order(set), start) <= lower_bound(in_paddr_order(set), end)

\* the copies of the entries from position first up to, not including, last
backrefs_between(q, first, last) ==
  set_insert({}, {backref_copy(q[i]) : i \in first..(last - 1)})

\* a range query that stops at upper_bound(end): the entry at end is returned
get_backrefs_in_range_closed(s, start, end) ==
  LET q == in_paddr_order(s.backref_inserted_set)
  IN [s EXCEPT !.ret = [kind |-> "set",
                        ref |-> backrefs_between(q, lower_bound(q, start),
                                                 upper_bound(q, end))]]

get_backrefs_in_range(s, start, end) ==
  LET q == in_paddr_order(s.backref_inserted_set)
  IN [s EXCEPT !.ret = [kind |-> "set",
                        ref |-> backrefs_between(q, lower_bound(q, start),
                                                 lower_bound(q, end))]]

get_del_backrefs_in_range(s, start, end) ==
  LET q == in_paddr_order(s.backref_remove_set)
  IN [s EXCEPT !.ret = [kind |-> "set",
                        ref |-> backrefs_between(q, lower_bound(q, start),
                                                 lower_bound(q, end))]]

\* backref_should_be_removed: find(paddr, cmp_t()) in the remove set
backref_should_be_removed(s, addr) ==
  \E x \in s.backref_remove_set : x.paddr = addr

\* get_del_backref: the entry find(paddr, cmp_t()) reaches in the remove
\* set; the assert fails when there is none
get_del_backref(s, addr) ==
  IF backref_should_be_removed(s, addr)
  THEN [s EXCEPT !.ret = [kind |-> "entry",
                          ref |-> CHOOSE x \in s.backref_remove_set : x.paddr = addr]]
  ELSE [s EXCEPT !.ret = [kind |-> "abort", ref |-> NoId]]

\* a commit that publishes its seq before its extents reach the index
complete_commit_publishes_first(s, t, final_block_start, seq) ==
  LET tx == s.txn[t]
      s1 == commit_retire_all(s, t, tx.retired_set)
      s5 == [s1 EXCEPT !.last_commit = seq, !.txn[t].status = "committed"]
  IN returns(s5, t, "complete_commit", final_block_start, "done", NoId)

complete_commit(s, t, final_block_start, seq) ==
  LET tx == s.txn[t]
      s1 == commit_retire_all(s, t, tx.retired_set)
      s2 == commit_fresh(s1, tx.fresh_block_list, final_block_start, seq)
      s3 == commit_mutations(s2, t, tx.mutated_block_list, seq)
      s4 == backref_batch_update(s3,
              {backref_entry(s3, f, seq) : f \in SeqToSet(tx.fresh_block_list)},
              {backref_entry(s3, r, seq) : r \in tx.retired_set}, seq)
      s5 == [s4 EXCEPT !.last_commit = seq, !.txn[t].status = "committed"]
  IN returns(s5, t, "complete_commit", final_block_start, "done", NoId)

\* ---------------------------------------------------------------- actions
\* ------------------------------------------- update_extent_from_transaction
\* an update that hands the passed extent back whatever t.get_extent says
update_extent_from_transaction_unretired(s, t, e) ==
  IF is_root(s, e) /\ s.txn[t].root # NoId
  THEN returns(s, t, "update_extent_from_transaction", s.ext[e].paddr,
               "ref", s.txn[t].root)
  ELSE returns(s, t, "update_extent_from_transaction", s.ext[e].paddr, "ref", e)

update_extent_from_transaction(s, t, e) ==
  IF is_root(s, e)
  THEN IF s.txn[t].root # NoId
       THEN returns(s, t, "update_extent_from_transaction", s.ext[e].paddr,
                    "ref", s.txn[t].root)
       ELSE returns([add_to_read_set(s, t, e) EXCEPT !.txn[t].root = e],
                    t, "update_extent_from_transaction", s.ext[e].paddr, "ref", e)
  ELSE LET result == txn_get_extent(s, t, s.ext[e].paddr)
       IN IF result = "RETIRED"
          THEN returns(s, t, "update_extent_from_transaction", s.ext[e].paddr,
                       "null", NoId)
          ELSE IF result = "ABSENT"
          THEN returns(add_to_read_set(s, t, e), t,
                       "update_extent_from_transaction", s.ext[e].paddr, "ref", e)
          ELSE returns(s, t, "update_extent_from_transaction", s.ext[e].paddr,
                       "ref", txn_ref(s, t, s.ext[e].paddr))

\* ------------------------------------------------------------------ stats
\* Transaction::src_t, in the order of its values from 0 on; MAX comes last
src_t == <<"MUTATE", "READ", "CLEANER_TRIM", "CLEANER_RECLAIM", "TRIM_BACKREF">>
SRC_MAX == Len(src_t)
Srcs == 0..(SRC_MAX - 1)
\* the value of the enumerator called name
src(name) == (CHOOSE i \in 1..Len(src_t) : src_t[i] = name) - 1

NUM_SRC_COMB == (SRC_MAX * (SRC_MAX + 1)) \div 2

\* the handler is done and hands nothing back
finishes(s) == [s EXCEPT !.ret = [kind |-> "done", ref |-> NoId]]
\* an assertion of the handler failed
aborts(s) == [s EXCEPT !.ret = [kind |-> "abort", ref |-> NoId]]

\* the combinations account_conflict asserts to be impossible
impossible(src1, src2) ==
  /\ src1 = src2
  /\ src1 \in {src("READ"), src("CLEANER_TRIM"), src("CLEANER_RECLAIM"),
               src("TRIM_BACKREF")}

\* num_srcs * src1_value + src2_value - src1_value * (src1_value + 1) / 2
conflict_index(src1, src2) ==
  SRC_MAX * src1 + src2 - ((src1 * (src1 + 1)) \div 2)

\* an accounting that takes the two sources in the order they come in
account_conflict_unswapped(s, src1, src2, asserts) ==
  IF asserts /\ impossible(src1, src2) THEN aborts(s)
  ELSE IF asserts /\ ~(conflict_index(src1, src2) < NUM_SRC_COMB) THEN aborts(s)
  ELSE finishes([s EXCEPT !.stats.trans_conflicts_by_srcs =
               [i \in DOMAIN @ |-> IF i = conflict_index(src1, src2)
                                    THEN @[i] + 1 ELSE @[i]]])

account_conflict(s, src1, src2, asserts) ==
  LET a == IF src1 > src2 THEN src2 ELSE src1
      b == IF src1 > src2 THEN src1 ELSE src2
  IN IF asserts /\ impossible(a, b) THEN aborts(s)
     ELSE IF asserts /\ ~(conflict_index(a, b) < NUM_SRC_COMB) THEN aborts(s)
     ELSE finishes([s EXCEPT !.stats.trans_conflicts_by_srcs =
                  [i \in DOMAIN @ |-> IF i = conflict_index(a, b)
                                       THEN @[i] + 1 ELSE @[i]]])

\* the extent types update_tree_extents_num is called with: those of its
\* switch and two of the others
ExtentTypes == {"LADDR_INTERNAL", "LADDR_LEAF", "OMAP_INNER", "OMAP_LEAF",
                "ONODE_BLOCK_STAGED", "BACKREF_INTERNAL", "BACKREF_LEAF",
                "ROOT", "DATA"}
Deltas == (0 - MaxDelta)..MaxDelta

\* ceph_assert, which every build checks
ceph_assert(s, cond) == IF cond THEN finishes(s) ELSE aborts(s)

update_tree_extents_num(s, type, delta) ==
  IF type \in {"LADDR_INTERNAL", "LADDR_LEAF"}
  THEN LET s1 == [s EXCEPT !.stats.lba_tree_extents_num = @ + delta]
       IN ceph_assert(s1, s1.stats.lba_tree_extents_num >= 0)
  ELSE IF type \in {"OMAP_INNER", "OMAP_LEAF"}
  THEN LET s1 == [s EXCEPT !.stats.omap_tree_extents_num = @ + delta]
       IN ceph_assert(s1, s1.stats.lba_tree_extents_num >= 0)
  ELSE IF type = "ONODE_BLOCK_STAGED"
  THEN LET s1 == [s EXCEPT !.stats.onode_tree_extents_num = @ + delta]
       IN ceph_assert(s1, s1.stats.onode_tree_extents_num >= 0)
  ELSE IF type \in {"BACKREF_INTERNAL", "BACKREF_LEAF"}
  THEN LET s1 == [s EXCEPT !.stats.backref_tree_extents_num = @ + delta]
       IN ceph_assert(s1, s1.stats.backref_tree_extents_num >= 0)
  ELSE finishes(s)

Init ==
  /\ ext = [e \in Ids |-> NoExt]
  /\ index = {}
  /\ lru = <<>>
  /\ pins = [e \in Ids |-> 0]
  /\ dangling = {}
  /\ contents = 0
  /\ dirty = <<>>
  /\ txn = [t \in Txns |-> NoTxn]
  /\ call = [t \in Txns |-> NoCall]
  /\ reading = {}
  /\ epm_reads = [e \in Ids |-> 0]
  /\ last_commit = JOURNAL_SEQ_MIN
  /\ backrefs_by_seq = [k \in {} |-> {}]
  /\ backref_inserted_set = {}
  /\ backref_remove_set = {}
  /\ stats = [trans_conflicts_by_srcs |-> [i \in 0..(NUM_SRC_COMB - 1) |-> 0],
              lba_tree_extents_num |-> 0, omap_tree_extents_num |-> 0,
              onode_tree_extents_num |-> 0, backref_tree_extents_num |-> 0]

\* t is a transaction under construction whose task is not inside a call
Idle(t) == txn[t].status = "open" /\ call[t] = NoCall

\* the addresses t can ask for: absolute ones and those of its fresh extents
Known(t) == Paddrs \union {ext[f].paddr : f \in SeqToSet(txn[t].fresh_block_list)}

CreateTransaction(t) ==
  /\ txn[t].status = "none"
  /\ Becomes(returns([Here EXCEPT !.txn[t] = [NoTxn EXCEPT !.status = "open",
                                                            !.view_seq = last_commit]],
                     t, "create_transaction", 0, "done", NoId))

ResetTransaction(t) ==
  /\ \/ txn[t].status \in {"rejected", "committed"}
     \/ txn[t].status = "open" /\ txn[t].conflicted
  /\ Becomes(returns([Here EXCEPT !.txn[t] = [NoTxn EXCEPT !.status = "open",
                                                            !.view_seq = last_commit],
                                  !.call[t] = NoCall],
                     t, "reset_transaction_preserve_handle", 0, "done", NoId))

\* get_extent<T>(Transaction&, offset, length): a retired offset trips the
\* assertion (build with assertions) or hands back Transaction::get_extent's
\* reference (build without)
get_extent_txn(s, t, p, asserts) ==
  LET r == txn_get_extent(s, t, p)
  IN IF r = "RETIRED"
     THEN IF asserts THEN returns(s, t, "get_extent", p, "abort", NoId)
          ELSE wait_io(s, t, "get_extent", p,
                       CHOOSE e \in at(s, s.txn[t].retired_set, p) : TRUE)
     ELSE IF r = "PRESENT"
     THEN wait_io(s, t, "get_extent", p, txn_ref(s, t, p))
     ELSE get_extent(s, t, "get_extent", p, DiskLen(p), DiskType(p))

\* a lookup that reads a retired offset from the cache
get_extent_by_type_reads_retired(s, t, p) ==
  IF txn_get_extent(s, t, p) = "PRESENT"
  THEN wait_io(s, t, "get_extent", p, txn_ref(s, t, p))
  ELSE get_extent(s, t, "get_extent", p, DiskLen(p), DiskType(p))

\* a lookup that asks the cache although the transaction knows the offset
get_extent_by_type_forgets(s, t, p) ==
  IF txn_get_extent(s, t, p) = "RETIRED"
  THEN returns(s, t, "get_extent_by_type", p, "null", NoId)
  ELSE IF query_cache(s, p) # NoId /\ ~is_placeholder(s, query_cache(s, p))
  THEN get_extent(s, t, "get_extent", p, DiskLen(p), DiskType(p))
  ELSE IF txn_get_extent(s, t, p) = "PRESENT"
  THEN wait_io(s, t, "get_extent", p, txn_ref(s, t, p))
  ELSE get_extent(s, t, "get_extent", p, DiskLen(p), DiskType(p))

\* _get_extent_by_type(Transaction&, type, offset, laddr, length)
get_extent_by_type(s, t, p) ==
  LET r == txn_get_extent(s, t, p)
  IN IF r = "RETIRED"
     THEN returns(s, t, "get_extent_by_type", p, "null", NoId)
     ELSE IF r = "PRESENT"
     THEN wait_io(s, t, "get_extent", p, txn_ref(s, t, p))
     ELSE get_extent(s, t, "get_extent", p, DiskLen(p), DiskType(p))

\* a lookup that hands out the placeholder it finds
get_extent_if_cached_placeholder(s, t, p) ==
  LET r == txn_get_extent(s, t, p)
      cached == query_cache(s, p)
  IN IF r = "RETIRED"
     THEN returns(s, t, "get_extent_if_cached", p, "ref",
                  CHOOSE e \in at(s, s.txn[t].retired_set, p) : TRUE)
     ELSE IF r = "PRESENT"
     THEN wait_io(s, t, "get_extent_if_cached", p, txn_ref(s, t, p))
     ELSE IF cached = NoId
     THEN returns(s, t, "get_extent_if_cached", p, "null", NoId)
     ELSE wait_io(touch_extent(add_to_read_set(s, t, cached), cached),
                  t, "get_extent_if_cached", p, cached)

\* a lookup that reads the extent it does not find
get_extent_if_cached_reads(s, t, p) ==
  LET r == txn_get_extent(s, t, p)
      cached == query_cache(s, p)
  IN IF r = "RETIRED"
     THEN returns(s, t, "get_extent_if_cached", p, "ref",
                  CHOOSE e \in at(s, s.txn[t].retired_set, p) : TRUE)
     ELSE IF r = "PRESENT"
     THEN wait_io(s, t, "get_extent_if_cached", p, txn_ref(s, t, p))
     ELSE IF cached = NoId /\ CanAlloc(s)
     THEN get_extent(s, t, "get_extent_if_cached", p, DiskLen(p), DiskType(p))
     ELSE IF cached = NoId \/ is_placeholder(s, cached)
     THEN returns(s, t, "get_extent_if_cached", p, "null", NoId)
     ELSE wait_io(touch_extent(add_to_read_set(s, t, cached), cached),
                  t, "get_extent_if_cached", p, cached)

get_extent_if_cached(s, t, p) ==
  LET r == txn_get_extent(s, t, p)
      cached == query_cache(s, p)
  IN IF r = "RETIRED"
     THEN returns(s, t, "get_extent_if_cached", p, "ref",
                  CHOOSE e \in at(s, s.txn[t].retired_set, p) : TRUE)
     ELSE IF r = "PRESENT"
     THEN wait_io(s, t, "get_extent_if_cached", p, txn_ref(s, t, p))
     ELSE IF cached = NoId \/ is_placeholder(s, cached)
     THEN returns(s, t, "get_extent_if_cached", p, "null", NoId)
     ELSE wait_io(touch_extent(add_to_read_set(s, t, cached), cached),
                  t, "get_extent_if_cached", p, cached)

\* a transactional read of p can run: an address t does not know is an
\* absolute one, and an extent object is left when the read creates one
CanRead(t, p) ==
  /\ Idle(t)
  /\ txn_get_extent(Here, t, p) = "ABSENT"
       => p \in Paddrs /\ (get_extent_allocates(Here, p) => CanAlloc(Here))

GetExtent(t, p, asserts) ==
  /\ CanRead(t, p)
  /\ Becomes(get_extent_txn(Here, t, p, asserts))

GetExtentByType(t, p) ==
  /\ CanRead(t, p)
  /\ Becomes(get_extent_by_type(Here, t, p))

GetExtentIfCached(t, p) ==
  /\ Idle(t)
  /\ Becomes(get_extent_if_cached(Here, t, p))

\* the task that issued the read of e, if its call is still there
Reader(s, e) == {t \in Txns : s.call[t].kind = "read" /\ s.call[t].e = e}

\* read_extent's continuation: the EPM read of e succeeded
read_extent_done(s, e) ==
  LET s1 == [s EXCEPT !.ext[e].state = "CLEAN", !.ext[e].io = FALSE,
                      !.reading = @ \ {e}]
  IN IF Reader(s, e) = {} THEN s1
     ELSE LET t == CHOOSE x \in Reader(s, e) : TRUE
          IN returns(s1, t, s.call[t].op, s.call[t].p, "ref", e)

\* the EPM read of e failed: the error is passed further
read_extent_failed(s, e) ==
  LET s1 == [s EXCEPT !.reading = @ \ {e}]
  IN IF Reader(s, e) = {} THEN s1
     ELSE LET t == CHOOSE x \in Reader(s, e) : TRUE
          IN returns(s1, t, s.call[t].op, s.call[t].p, "IoError", NoId)

ReadDone(e) ==
  /\ e \in reading
  /\ Becomes(read_extent_done(Here, e))

ReadFail(e) ==
  /\ e \in reading
  /\ Becomes(read_extent_failed(Here, e))

\* the continuation of wait_io in the call of task t
wait_io_done(s, t) ==
  IF s.call[t].op = "retire_extent_addr"
  THEN returns(add_to_retired_set(s, t, s.call[t].e), t, s.call[t].op,
               s.call[t].p, "done", s.call[t].e)
  ELSE returns(s, t, s.call[t].op, s.call[t].p, "ref", s.call[t].e)

\* a task waiting on the io latch of an extent resumes
WaitDone(t) ==
  /\ call[t].kind = "wait"
  /\ ~ext[call[t].e].io
  /\ Becomes(wait_io_done(Here, t))

AllocNewExtent(t, len) ==
  /\ Idle(t)
  /\ CanAlloc(Here)
  /\ Becomes(alloc_new_extent(Here, t, len, AllocType(len)))

\* the extents t holds a usable reference to
Held(t) == {e \in txn[t].read_set \union write_set(Here, t) :
              /\ ~is_placeholder(Here, e)
              /\ ext[e].state \in {"CLEAN", "DIRTY", "MUTATION_PENDING",
                                   "INITIAL_WRITE_PENDING"}}

DuplicateForWrite(t, i) ==
  /\ Idle(t)
  /\ i \in Held(t) \ txn[t].retired_set
  /\ (~is_pending(Here, i) /\ mutating(Here, t, i) = {}) => CanAlloc(Here)
  /\ Becomes(duplicate_for_write(Here, t, i))

RetireExtent(t, ref) ==
  /\ Idle(t)
  /\ ref \in (Held(t) \cap txn[t].read_set) \ txn[t].retired_set
  /\ mutating(Here, t, ref) = {}
  /\ Becomes(retire_extent(Here, t, ref))

RetireExtentAddr(t, p) ==
  /\ Idle(t)
  /\ txn_get_extent(Here, t, p) # "RETIRED"
  /\ txn_get_extent(Here, t, p) = "PRESENT" =>
        /\ txn_ref(Here, t, p) \in txn[t].read_set
        /\ mutating(Here, t, txn_ref(Here, t, p)) = {}
  /\ (txn_get_extent(Here, t, p) = "ABSENT" /\ query_cache(Here, p) = NoId)
        => CanAlloc(Here)
  /\ Becomes(retire_extent_addr(Here, t, p, DiskLen(p)))

GetNextDirtyExtents(t, seq, max_bytes) ==
  /\ Idle(t)
  /\ Becomes(get_next_dirty_extents(Here, t, seq, max_bytes))

\* one record at a time is between prepare_record and complete_commit
PrepareRecord(t) ==
  /\ Idle(t)
  /\ \A u \in Txns : txn[u].status # "prepared"
  /\ write_set(Here, t) \union txn[t].retired_set # {}
  /\ Becomes(prepare_record(Here, t))

\* the journal hands out the next seq and places the record's blocks where
\* no extent lives and none is being retired
CanCommit(t, final_block_start, seq) ==
  /\ txn[t].status = "prepared"
  /\ seq = last_commit + 1
  /\ LET fp == final_paddrs(Here, txn[t].fresh_block_list, final_block_start)
     IN \A i \in 1..Len(fp) :
          /\ fp[i] \in Paddrs
          /\ find_offset(Here, fp[i]) = {}
          /\ at(Here, txn[t].retired_set, fp[i]) = {}

CompleteCommit(t, final_block_start, seq) ==
  /\ CanCommit(t, final_block_start, seq)
  /\ Becomes(complete_commit(Here, t, final_block_start, seq))

Next ==
  \/ \E t \in Txns : CreateTransaction(t)
  \/ \E t \in Txns : ResetTransaction(t)
  \/ \E t \in Txns : \E p \in Known(t) : \E asserts \in BOOLEAN : GetExtent(t, p, asserts)
  \/ \E t \in Txns : \E p \in Known(t) : GetExtentByType(t, p)
  \/ \E t \in Txns, p \in Paddrs : GetExtentIfCached(t, p)
  \/ \E e \in Ids : ReadDone(e)
  \/ \E e \in Ids : ReadFail(e)
  \/ \E t \in Txns : WaitDone(t)
  \/ \E t \in Txns, len \in Lens : AllocNewExtent(t, len)
  \/ \E t \in Txns, i \in Ids : DuplicateForWrite(t, i)
  \/ \E t \in Txns, ref \in Ids : RetireExtent(t, ref)
  \/ \E t \in Txns, p \in Paddrs : RetireExtentAddr(t, p)
  \/ \E t \in Txns, seq \in UptoSeqs, max_bytes \in Budgets :
       GetNextDirtyExtents(t, seq, max_bytes)
  \/ \E t \in Txns : PrepareRecord(t)
  \/ \E t \in Txns, p \in Paddrs, seq \in Seqs : CompleteCommit(t, p, seq)

Spec == Init /\ [][Next]_vars

\* -------------------------------------- the back-reference buffer alone
\* The buffer and the two sets are written by complete_commit's batch
\* update and by trim_backref_bufs only, and read by the back-reference
\* queries only; driven alone, it takes the three batches and the
\* logical addresses that the commits of the whole cache above cannot
\* produce within their bounds.
BackrefEntries(seq) ==
  [paddr : Paddrs, laddr : Laddrs, len : {1}, type : {"DATA"}, seq : {seq}]

\* at most one entry of a kind per commit, and at least one entry
BackrefBatches(seq) ==
  {b \in [inserted : {{}} \union {{x} : x \in BackrefEntries(seq)},
          removed : {{}} \union {{x} : x \in BackrefEntries(seq)}] :
     b.inserted \union b.removed # {}}

\* what complete_commit does to the buffer: the batch under the commit's
\* seq, then the seq published
BackrefCommit(inserted, removed, seq) ==
  /\ seq = last_commit + 1
  /\ Becomes([backref_batch_update(Here, inserted, removed, seq)
                EXCEPT !.last_commit = seq])

TrimBackrefBufs(trim_to, asserts) ==
  Becomes(trim_backref_bufs(Here, trim_to, asserts))

NextBackref ==
  \/ \E seq \in BatchSeqs : \E b \in BackrefBatches(seq) :
       BackrefCommit(b.inserted, b.removed, seq)
  \/ \E trim_to \in TrimSeqs, asserts \in BOOLEAN : TrimBackrefBufs(trim_to, asserts)

SpecBackref == Init /\ [][NextBackref]_vars

\* the cache with the cleaner's calls of update_extent_from_transaction on
\* the extents it took from the cache
UpdateExtentFromTransaction(t, e) ==
  /\ Idle(t)
  /\ e \in index
  /\ Becomes(update_extent_from_transaction(Here, t, e))

NextUpdate ==
  \/ \E t \in Txns : CreateTransaction(t)
  \/ \E t \in Txns : ResetTransaction(t)
  \/ \E t \in Txns : \E p \in Known(t) : GetExtent(t, p, TRUE)
  \/ \E e \in Ids : ReadDone(e)
  \/ \E t \in Txns : WaitDone(t)
  \/ \E t \in Txns, len \in Lens : AllocNewExtent(t, len)
  \/ \E t \in Txns, i \in Ids : DuplicateForWrite(t, i)
  \/ \E t \in Txns, ref \in Ids : RetireExtent(t, ref)
  \/ \E t \in Txns : PrepareRecord(t)
  \/ \E t \in Txns, p \in Paddrs, seq \in Seqs : CompleteCommit(t, p, seq)
  \/ \E t \in Txns : \E e \in Ids : UpdateExtentFromTransaction(t, e)

SpecUpdate == Init /\ [][NextUpdate]_vars

\* ------------------------------------------------------ init_cached_extents
\* Cache::root is the indexed ROOT extent
root_is_dirty(s) == \E e \in s.index : is_root(s, e) /\ is_dirty(s, e)

\* for (auto &e : extents): the index in its order, which is by paddr
RECURSIVE in_index_order(_, _)
in_index_order(s, S) ==
  IF S = {} THEN <<>>
  ELSE LET e == CHOOSE x \in S : \A y \in S : s.ext[x].paddr <= s.ext[y].paddr
       IN <<e>> \o in_index_order(s, S \ {e})

\* what the callback f does with an extent: the paddr it reads through the
\* cache on behalf of t (0: none) and the answer it gives
Answers == [reads : 0..MaxPaddr, is_alive : BOOLEAN]

\* the read of f, run to its end: it is taken when t may read p and the
\* read does not wait for another task
f_reads(s, t, p) ==
  IF p = 0 \/ txn_get_extent(s, t, p) = "RETIRED" THEN s
  ELSE IF /\ txn_get_extent(s, t, p) = "ABSENT"
          /\ get_extent_allocates(s, p) /\ Allocated(s) = Ids
  THEN s
  ELSE LET s1 == get_extent_txn(s, t, p, TRUE)
       IN IF s1.call[t].kind = "read" THEN read_extent_done(s1, s1.call[t].e)
          ELSE IF s1.call[t].kind = "wait" THEN s
          ELSE s1

\* one round of do_for_each: f(t, e), then remove_extent(e) unless alive;
\* c carries the cache, the calls of f and the calls of remove_extent
inspect(c, t, e, F) ==
  LET s1 == f_reads(c.state, t, F[e].reads)
      c1 == [c EXCEPT !.state = s1, !.visited = Append(@, e)]
  IN IF F[e].is_alive THEN c1
     ELSE [c1 EXCEPT !.state = remove_extent(s1, e),
                     !.removed = Append(@, e),
                     !.unindexed = IF e \in s1.index THEN @ ELSE @ \union {e}]

RECURSIVE do_for_each(_, _, _, _)
do_for_each(c, t, refs, F) ==
  IF refs = <<>> THEN c
  ELSE do_for_each(inspect(c, t, Head(refs), F), t, Tail(refs), F)

\* init_cached_extents(t, f): state is the cache it leaves, visited the
\* extents f was called with, removed those remove_extent was called with,
\* unindexed those of them that were out of the index at that call
init_cached_extents(s, t, F, asserts) ==
  LET c == [state |-> s, visited |-> <<>>, removed |-> <<>>, unindexed |-> {}]
  IN IF asserts /\ ~root_is_dirty(s)
     THEN [c EXCEPT !.state = returns(s, t, "init_cached_extents", 0, "abort", NoId)]
     ELSE LET d == do_for_each(c, t, in_index_order(s, s.index), F)
          IN [d EXCEPT !.state = returns(d.state, t, "init_cached_extents", 0,
                                         "done", NoId)]

\* the cache with init_cached_extents called on it
InitCachedExtents(t, F, asserts) ==
  /\ Idle(t)
  /\ Becomes(init_cached_extents(Here, t, F, asserts).state)

NextInit ==
  \/ \E t \in Txns : CreateTransaction(t)
  \/ \E t \in Txns : \E p \in Known(t) : GetExtent(t, p, TRUE)
  \/ \E e \in Ids : ReadDone(e)
  \/ \E t \in Txns : WaitDone(t)
  \/ \E t \in Txns, len \in Lens : AllocNewExtent(t, len)
  \/ \E t \in Txns, p \in Paddrs : RetireExtentAddr(t, p)
  \/ \E t \in Txns : PrepareRecord(t)
  \/ \E t \in Txns, p \in Paddrs, seq \in Seqs : CompleteCommit(t, p, seq)
  \/ \E t \in Txns : \E a \in Answers : \E asserts \in BOOLEAN :
       InitCachedExtents(t, [e \in index |-> a], asserts)

SpecInit == Init /\ [][NextInit]_vars

\* the conflict counters alone: account_conflict on every pair of sources;
\* a call whose assertion fails ends the program
RECURSIVE Sum(_, _)
Sum(f, S) ==
  IF S = {} THEN 0
  ELSE LET x == CHOOSE y \in S : TRUE IN f[x] + Sum(f, S \ {x})

Conflicts(s) == Sum(s.stats.trans_conflicts_by_srcs,
                    DOMAIN s.stats.trans_conflicts_by_srcs)

AccountConflict(src1, src2, asserts) ==
  /\ Conflicts(Here) < MaxConflicts
  /\ account_conflict(Here, src1, src2, asserts).ret.kind = "done"
  /\ Becomes(account_conflict(Here, src1, src2, asserts))

NextConflict ==
  \E src1 \in Srcs, src2 \in Srcs, asserts \in BOOLEAN :
    AccountConflict(src1, src2, asserts)

SpecConflict == Init /\ [][NextConflict]_vars

\* the tree extent counters alone: a call whose assertion fails ends the
\* program
TreeExtentsNum(s) ==
  {s.stats.lba_tree_extents_num, s.stats.omap_tree_extents_num,
   s.stats.onode_tree_extents_num, s.stats.backref_tree_extents_num}

UpdateTreeExtentsNum(type, delta) ==
  \E r \in {update_tree_extents_num(Here, type, delta)} :
    /\ r.ret.kind = "done"
    /\ \A n \in TreeExtentsNum(r) : n \in (0 - MaxCount)..MaxCount
    /\ Becomes(r)

NextTree ==
  \E type \in ExtentTypes, delta \in Deltas : UpdateTreeExtentsNum(type, delta)

SpecTree == Init /\ [][NextTree]_vars

\* ------------------------------------------------------------------ C1
\* C1: in every reachable state the index holds at most one extent per
\* paddr, every indexed paddr is absolute, and the lookup of an indexed
\* paddr yields the indexed extent whose paddr it is
C1_IndexOnePerPaddr ==
  /\ \A a, b \in index : ext[a].paddr = ext[b].paddr => a = b
  /\ \A e \in index :
       /\ is_absolute(ext[e].paddr)
       /\ query_cache(Here, ext[e].paddr) \in index
       /\ ext[query_cache(Here, ext[e].paddr)].paddr = ext[e].paddr

\* a commit installed a placeholder and a later read promoted it: the
\* promoted extent is the index entry of the paddr the committed transaction
\* retired
C1_Witness ==
  \E e \in index, t \in Txns :
    /\ txn[t].status = "committed" /\ e \in txn[t].retired_set
    /\ ~is_placeholder(Here, e)
    /\ find_offset(Here, ext[e].paddr) = {e}

\* ------------------------------------------------------------------ C2
\* C2: the get_extent calls suspended on the same paddr whose extent is
\* CLEAN_PENDING all hold the same extent object (the one they return when
\* they resume) and one EPM read has been issued for it; a task that calls
\* get_extent for a paddr whose extent is CLEAN_PENDING issues no EPM read
\* and suspends on that object
C2_CoalescedRead ==
  /\ \A t, u \in Txns :
       (/\ call[t].op = "get_extent" /\ call[u].op = "get_extent"
        /\ call[t].p = call[u].p
        /\ ext[call[t].e].state = "CLEAN_PENDING"
        /\ ext[call[u].e].state = "CLEAN_PENDING")
       => call[t].e = call[u].e /\ epm_reads[call[t].e] = 1
  /\ \A t \in Txns, p \in Paddrs :
       (/\ CanRead(t, p)
        /\ txn_get_extent(Here, t, p) = "ABSENT"
        /\ query_cache(Here, p) # NoId
        /\ ext[query_cache(Here, p)].state = "CLEAN_PENDING")
       => LET r == settle(get_extent_txn(Here, t, p, TRUE))
          IN /\ r.epm_reads = epm_reads
             /\ r.reading = reading
             /\ r.ret = [kind |-> "suspended", ref |-> query_cache(Here, p)]

\* two tasks are suspended in get_extent on the same paddr, one in the EPM
\* read and one on the latch
C2_Witness ==
  \E t, u \in Txns :
    /\ call[t].op = "get_extent" /\ call[t].kind = "read"
    /\ call[u].op = "get_extent" /\ call[u].kind = "wait"
    /\ call[t].p = call[u].p /\ call[t].e = call[u].e
    /\ ext[call[t].e].state = "CLEAN_PENDING"

\* ------------------------------------------------------------------ C3
\* C3: prepare_record of a transaction with an INVALID extent in its read
\* set fails with TransactionConflict, rejects the transaction and changes
\* neither the index nor any extent or list; a transaction between
\* prepare_record and complete_commit has a valid read set; the writes of
\* a rejected transaction are pending and outside the index
C3_ConflictRejected ==
  \A t \in Txns :
    /\ (Idle(t) /\ \E e \in txn[t].read_set : ~is_valid(Here, e))
       => LET r == settle(prepare_record(Here, t))
          IN /\ r.ret.kind = "TransactionConflict"
             /\ r.txn[t].status = "rejected"
             /\ r.index = index /\ r.ext = ext
             /\ r.lru = lru /\ r.dirty = dirty
             /\ r.last_commit = last_commit
    /\ txn[t].status = "prepared"
       => \A e \in txn[t].read_set : is_valid(Here, e)
    /\ txn[t].status = "rejected"
       => \A e \in write_set(Here, t) : e \notin index /\ is_pending(Here, e)

\* a transaction that allocated an extent was rejected because an extent
\* it read was invalidated by a commit
C3_Witness ==
  \E t \in Txns :
    /\ txn[t].status = "rejected"
    /\ txn[t].fresh_block_list # <<>>
    /\ \E e \in txn[t].read_set : ~is_valid(Here, e)
    /\ last_commit > JOURNAL_SEQ_MIN

\* ------------------------------------------------------------------ C4
\* C4: complete_commit(t, final_block_start, seq) leaves last_commit = seq
\* and every fresh extent of t in the index, at the absolute paddr
\* final_block_start plus the lengths of the fresh extents before it, in a
\* state other than INITIAL_WRITE_PENDING
C4_FreshCommitted ==
  \A t \in Txns, final_block_start \in Paddrs, seq \in Seqs :
    CanCommit(t, final_block_start, seq)
    => LET r == settle(complete_commit(Here, t, final_block_start, seq))
           q == txn[t].fresh_block_list
       IN /\ r.last_commit = seq
          /\ \A i \in 1..Len(q) :
               /\ q[i] \in r.index
               /\ r.ext[q[i]].paddr = final_block_start + SumLen(ext, SubSeq(q, 1, i - 1))
               /\ is_absolute(r.ext[q[i]].paddr)
               /\ r.ext[q[i]].state # "INITIAL_WRITE_PENDING"

\* a commit of two fresh extents happened: the second one sits behind the
\* first one in the index
C4_Witness ==
  \E t \in Txns :
    /\ txn[t].status = "committed"
    /\ Len(txn[t].fresh_block_list) = 2
    /\ SeqToSet(txn[t].fresh_block_list) \subseteq index
    /\ ext[txn[t].fresh_block_list[2]].paddr
         = ext[txn[t].fresh_block_list[1]].paddr + ext[txn[t].fresh_block_list[1]].len
    /\ last_commit > JOURNAL_SEQ_MIN

\* ------------------------------------------------------------------ C5
\* C5: complete_commit of a transaction leaves, for every mutated copy, its
\* predecessor INVALID and outside the index, the copy as the one index
\* entry at the predecessor's paddr, DIRTY and on the dirty list, with
\* dirty_from the commit seq, or the predecessor's dirty_from when the
\* predecessor was dirty
C5_MutationCommitted ==
  \A t \in Txns, final_block_start \in Paddrs, seq \in Seqs :
    CanCommit(t, final_block_start, seq)
    => LET r == settle(complete_commit(Here, t, final_block_start, seq))
       IN \A next \in SeqToSet(txn[t].mutated_block_list) :
            LET prev == ext[next].prior
            IN /\ r.ext[prev].state = "INVALID"
               /\ prev \notin r.index
               /\ find_offset(r, ext[prev].paddr) = {next}
               /\ r.ext[next].paddr = ext[prev].paddr
               /\ r.ext[next].state = "DIRTY"
               /\ next \in SeqToSet(r.dirty)
               /\ r.ext[next].dirty_from =
                    IF is_dirty(Here, prev) THEN ext[prev].dirty_from ELSE seq

\* the second commit mutated an extent that was dirty since the first one:
\* the copy is dirty since the first commit
C5_Witness ==
  \E t \in Txns, next \in Ids :
    /\ txn[t].status = "committed"
    /\ next \in SeqToSet(txn[t].mutated_block_list)
    /\ ext[next].state = "DIRTY" /\ next \in index
    /\ ext[ext[next].prior].state = "INVALID"
    /\ ext[next].dirty_from < last_commit

\* ------------------------------------------------------------------ C6
\* C6 as stated: complete_commit of a transaction leaves, at the paddr of
\* every extent it retired, nothing or a RETIRED_PLACEHOLDER in the index,
\* and get_extent_if_cached of that paddr from any other transaction
\* returns no extent
C6_RetiredUnreadableByAny ==
  \A t \in Txns, final_block_start \in Paddrs, seq \in Seqs :
    CanCommit(t, final_block_start, seq)
    => \E r \in {settle(complete_commit(Here, t, final_block_start, seq))} :
         \A x \in txn[t].retired_set :
           /\ \A e \in find_offset(r, ext[x].paddr) : is_placeholder(r, e)
           /\ \A u \in Txns \ {t} :
                (r.txn[u].status = "open" /\ r.call[u] = NoCall)
                => get_extent_if_cached(r, u, ext[x].paddr).ret.kind = "null"

\* C6 amended: the same, for the other transactions that do not hold the
\* paddr in their own read, write or retired sets
C6_RetiredUnreadable ==
  \A t \in Txns, final_block_start \in Paddrs, seq \in Seqs :
    CanCommit(t, final_block_start, seq)
    => \E r \in {settle(complete_commit(Here, t, final_block_start, seq))} :
         \A x \in txn[t].retired_set :
           /\ \A e \in find_offset(r, ext[x].paddr) : is_placeholder(r, e)
           /\ \A u \in Txns \ {t} :
                (/\ r.txn[u].status = "open" /\ r.call[u] = NoCall
                 /\ txn_get_extent(r, u, ext[x].paddr) = "ABSENT")
                => get_extent_if_cached(r, u, ext[x].paddr).ret.kind = "null"

\* a pure address retirement was committed, its placeholder is in the index
\* and another transaction that asks for the paddr gets no extent
C6_Witness ==
  \E t \in Txns, x \in Ids, u \in Txns :
    /\ txn[t].status = "committed" /\ x \in txn[t].retired_set
    /\ is_placeholder(Here, x) /\ x \in index
    /\ u # t /\ Idle(u)
    /\ txn_get_extent(Here, u, ext[x].paddr) = "ABSENT"
    /\ get_extent_if_cached(Here, u, ext[x].paddr).ret.kind = "null"

\* ------------------------------------------------------------------ C7
\* C7: a transactional get_extent that finds a RETIRED_PLACEHOLDER at p
\* leaves a new extent of the asked type as the one index entry at p, the
\* new extent in the read set of every transaction that had the
\* placeholder there and the placeholder in no read set, the placeholder
\* INVALID, and the caller suspended in the EPM read of the new extent,
\* which is CLEAN and returned to the caller when the read completes
C7_PlaceholderPromotion ==
  \A t \in Txns, p \in Paddrs :
    (/\ CanRead(t, p)
     /\ txn_get_extent(Here, t, p) = "ABSENT"
     /\ query_cache(Here, p) # NoId
     /\ is_placeholder(Here, query_cache(Here, p)))
    => \E raw \in {get_extent_txn(Here, t, p, TRUE)} :
       \E r \in {settle(raw)} :
         LET ph == query_cache(Here, p)
             e == r.ret.ref
             done == read_extent_done(r, e)
         IN /\ r.ret.kind = "suspended" /\ e \notin Allocated(Here)
            /\ find_offset(r, p) = {e}
            /\ r.ext[e].type = DiskType(p) /\ r.ext[e].paddr = p
            /\ \A u \in Txns :
                 /\ ph \notin r.txn[u].read_set
                 /\ ph \in txn[u].read_set => e \in r.txn[u].read_set
            /\ e \in r.txn[t].read_set
            /\ raw.ext[ph].state = "INVALID"
            /\ e \in r.reading /\ r.epm_reads[e] = 1
            /\ done.ext[e].state = "CLEAN"
            /\ done.ret = [kind |-> "ref", ref |-> e]

\* a read promoted the placeholder that another transaction held: the
\* reader waits for the EPM read of the new extent, which is in the read
\* set and the retired set of the other transaction
C7_Witness ==
  \E t, u \in Txns, e \in index :
    /\ t # u
    /\ call[t] = [op |-> "get_extent", kind |-> "read", e |-> e, p |-> ext[e].paddr]
    /\ ext[e].state = "CLEAN_PENDING" /\ ~is_placeholder(Here, e)
    /\ e \in txn[u].read_set /\ e \in txn[u].retired_set

\* ------------------------------------------------------------------ C8
\* C8: get_extent_if_cached issues no EPM read and adds nothing to the
\* index; when the transaction does not know the paddr and the index has
\* nothing or a RETIRED_PLACEHOLDER there, it returns no extent and leaves
\* the transaction's read set and the LRU as they were
C8_IfCachedReadsNothing ==
  \A t \in Txns, p \in Paddrs :
    Idle(t)
    => \E r \in {settle(get_extent_if_cached(Here, t, p))} :
         /\ r.epm_reads = epm_reads /\ r.reading = reading
         /\ r.index \subseteq index
         /\ (/\ txn_get_extent(Here, t, p) = "ABSENT"
             /\ \/ query_cache(Here, p) = NoId
                \/ is_placeholder(Here, query_cache(Here, p)))
            => /\ r.ret = [kind |-> "null", ref |-> NoId]
               /\ r.txn[t].read_set = txn[t].read_set
               /\ r.lru = lru /\ r.contents = contents
               /\ r.index = index

\* a transaction that does not know a paddr asks for it while the index
\* holds a placeholder there, and gets no extent
C8_Witness ==
  \E t \in Txns, p \in Paddrs :
    /\ Idle(t) /\ txn_get_extent(Here, t, p) = "ABSENT"
    /\ query_cache(Here, p) # NoId /\ is_placeholder(Here, query_cache(Here, p))
    /\ lru # <<>>
    /\ get_extent_if_cached(Here, t, p).ret.kind = "null"

\* ------------------------------------------------------------------ C9
\* the outcomes of the transactional reads of p in t: _get_extent_by_type,
\* get_extent<T> built with and without assertions
retired_reads(t, p) ==
  {settle(get_extent_by_type(Here, t, p)),
   settle(get_extent_txn(Here, t, p, TRUE)),
   settle(get_extent_txn(Here, t, p, FALSE))}

\* C9 as stated: a transactional read of a paddr the transaction has
\* retired fails with RetiredInTxn, returns no reference, issues no EPM
\* read and leaves the index as it was
C9_RetiredInTxnReported ==
  \A t \in Txns, p \in Paddrs :
    (Idle(t) /\ txn_get_extent(Here, t, p) = "RETIRED")
    => \A r \in retired_reads(t, p) :
         /\ r.ret = [kind |-> "RetiredInTxn", ref |-> NoId]
         /\ r.epm_reads = epm_reads /\ r.reading = reading
         /\ r.index = index

\* C9 amended: a transactional read of a paddr the transaction has retired
\* reports no error: _get_extent_by_type returns a null reference,
\* get_extent<T> fails its assertion or, built without assertions, hands
\* out the retired extent; none issues an EPM read or changes the index
C9_RetiredReadsNothing ==
  \A t \in Txns, p \in Paddrs :
    (Idle(t) /\ txn_get_extent(Here, t, p) = "RETIRED")
    => /\ settle(get_extent_by_type(Here, t, p)).ret = [kind |-> "null", ref |-> NoId]
       /\ settle(get_extent_txn(Here, t, p, TRUE)).ret = [kind |-> "abort", ref |-> NoId]
       /\ settle(get_extent_txn(Here, t, p, FALSE)).ret.kind \in {"ref", "suspended"}
       /\ settle(get_extent_txn(Here, t, p, FALSE)).ret.ref
            \in at(Here, txn[t].retired_set, p)
       /\ \A r \in retired_reads(t, p) :
            /\ r.epm_reads = epm_reads /\ r.reading = reading
            /\ r.index = index /\ r.txn[t] = txn[t]

\* a transaction that retired an extent it had read asks for its paddr
\* again and gets a null reference
C9_Witness ==
  \E t \in Txns, p \in Paddrs :
    /\ Idle(t) /\ txn_get_extent(Here, t, p) = "RETIRED"
    /\ \E x \in at(Here, txn[t].retired_set, p) : x \in index /\ ~is_placeholder(Here, x)
    /\ get_extent_by_type(Here, t, p).ret.kind = "null"

\* ----------------------------------------------------------------- C10
\* a read of p in t has returned (or a write of t has produced) the
\* reference t holds for p, and t is not inside a call
Knows(t, p) ==
  /\ Idle(t)
  /\ txn_get_extent(Here, t, p) = "PRESENT"
  /\ ~ext[txn_ref(Here, t, p)].io

\* what a read of p in t returns: _get_extent_by_type
ReadOf(t, p) == get_extent_by_type(Here, t, p).ret

\* what a read of p in t returns: get_extent<T>, assertions compiled in
ReadOfTyped(t, p) == get_extent_txn(Here, t, p, TRUE).ret

\* t is under construction and has not been reset
Continued(t) ==
  /\ txn[t].status = "open"
  /\ txn[t].read_set \union write_set(Here, t) # {}

\* the reference t holds for p is one t wrote
Written(t, p) ==
  /\ txn_get_extent(Here, t, p) = "PRESENT"
  /\ txn_ref(Here, t, p) \in write_set(Here, t)

AllPaddrs == Paddrs \union {ext[e].paddr : e \in Ids}

\* a read of an address t holds a reference for returns that reference
ReadsOwn ==
  \A t \in Txns : \A p \in AllPaddrs :
    Knows(t, p) =>
      /\ ReadOf(t, p) = [kind |-> "ref", ref |-> txn_ref(Here, t, p)]
      /\ ReadOfTyped(t, p) = ReadOf(t, p)

\* a read of an address t has retired returns a null reference, and
\* get_extent<T> fails its assertion
ReadsRetired ==
  \A t \in Txns : \A p \in AllPaddrs :
    (Idle(t) /\ txn_get_extent(Here, t, p) = "RETIRED") =>
      /\ ReadOf(t, p) = [kind |-> "null", ref |-> NoId]
      /\ ReadOfTyped(t, p) = [kind |-> "abort", ref |-> NoId]

\* the step leaves t holding the reference it held for p
Keeps(t, p) ==
  /\ txn_get_extent(Here, t, p)' = "PRESENT"
  /\ txn_ref(Here, t, p)' = txn_ref(Here, t, p)

Opened(t) ==
  /\ txn'[t] # txn[t]
  /\ txn'[t].status = "open"
  /\ txn'[t].read_set = {} /\ txn'[t].retired_set = {}
  /\ txn'[t].fresh_block_list = <<>> /\ txn'[t].mutated_block_list = <<>>

\* the step is the complete_commit of t
Committed(t) == txn[t].status = "prepared" /\ txn'[t].status = "committed"

C12_LruBytes ==
  /\ contents = SumLen(ext, lru)
  /\ contents <= capacity
  /\ \A e \in Ids :
       (is_clean(Here, e) /\ ~is_placeholder(Here, e) /\ ext[e].len > capacity)
       => /\ e \notin SeqToSet(lru)
          /\ \E r \in {touch_extent(Here, e)} : r.lru = <<>> /\ r.contents = 0

\* an extent longer than the capacity is CLEAN in the index while another
\* extent is on the LRU: touching the long one evicts both
C12_Witness ==
  \E e \in index :
    /\ ext[e].state = "CLEAN" /\ ext[e].len > capacity
    /\ lru # <<>> /\ contents > 0
    /\ touch_extent(Here, e).lru = <<>>

\* ----------------------------------------------------------------- C13
\* the extent objects that exist
Live == {e \in Ids : ext[e].state \notin {"NONE", "DESTROYED"}}

Evicted(e) ==
  /\ e \in SeqToSet(lru) /\ e \notin SeqToSet(lru')
  /\ ext'[e].state # "INVALID"

\* C14 as stated: an extent that trimming evicts is not in the index
\* afterwards, whoever still holds a reference to it
C14_EvictedLeavesIndex ==
  [][\A e \in Ids : Evicted(e) => e \notin index']_vars

\* C14 amended: trimming releases the LRU's reference only; the evicted
\* extent is out of the index afterwards exactly when no reference to it
\* is left, and stays in the index while a transaction holds it
C14_EvictedLeavesIndexUnheld ==
  [][\A e \in Ids : Evicted(e) =>
       /\ e \in index' <=> e \in Referenced(Here)'
       /\ e \notin index' => ext'[e].state = "DESTROYED"
       /\ (\E t \in Txns : e \in txn'[t].read_set) => e \in index']_vars

\* a CLEAN extent that fits the LRU is in the index and in a read set but
\* not on the LRU: it was trimmed while the transaction held it
C14_Witness ==
  \E e \in index, t \in Txns :
    /\ ext[e].state = "CLEAN" /\ ~is_placeholder(Here, e)
    /\ ext[e].len <= capacity
    /\ e \in txn[t].read_set
    /\ e \notin SeqToSet(lru) /\ lru # <<>>

\* ----------------------------------------------------------------- C15
\* the dirty_from of the DIRTY extents
DirtyFroms == {ext[e].dirty_from : e \in {x \in Live : ext[x].state = "DIRTY"}}

\* C15: an extent is on the dirty list exactly when its state is DIRTY,
\* the list holds no extent twice and ascends by (dirty_from, paddr), and
\* get_oldest_dirty_from is the least dirty_from of the DIRTY extents, or
\* nullopt when there is none
C15_DirtyList ==
  /\ \A e \in Live : e \in SeqToSet(dirty) <=> ext[e].state = "DIRTY"
  /\ SeqToSet(dirty) \subseteq Live
  /\ \A i \in 1..Len(dirty), j \in 1..Len(dirty) :
       i < j => dirty_before(Here, dirty[i], dirty[j])
  /\ IF DirtyFroms = {}
     THEN get_oldest_dirty_from(Here) = nullopt
     ELSE /\ get_oldest_dirty_from(Here) # nullopt
          /\ get_oldest_dirty_from(Here)[1] \in DirtyFroms
          /\ \A d \in DirtyFroms : get_oldest_dirty_from(Here)[1] <= d

\* two extents are on the dirty list with different dirty_from
C15_Witness ==
  /\ Len(dirty) = 2
  /\ ext[dirty[1]].dirty_from < ext[dirty[2]].dirty_from
  /\ get_oldest_dirty_from(Here) = <<ext[dirty[1]].dirty_from>>

\* ----------------------------------------------------------------- C16
\* C16: get_next_dirty_extents(t, seq, max_bytes) returns a prefix of the
\* dirty list, so in ascending (dirty_from, paddr) order, of extents with
\* dirty_from < seq whose lengths fit max_bytes, every returned extent is
\* in t's read set, and the cache's lists and index are as before
C16_NextDirtyExtents ==
  \A t \in Txns, seq \in UptoSeqs, max_bytes \in Budgets :
    Idle(t) =>
      \E r \in {settle(get_next_dirty_extents(Here, t, seq, max_bytes))} :
        /\ r.ret.kind = "list"
        /\ Len(r.ret.ref) <= Len(dirty)
        /\ \A i \in 1..Len(r.ret.ref) :
             /\ r.ret.ref[i] = dirty[i]
             /\ ext[r.ret.ref[i]].dirty_from < seq
             /\ r.ret.ref[i] \in r.txn[t].read_set
        /\ \A i \in 1..Len(r.ret.ref), j \in 1..Len(r.ret.ref) :
             i < j => \/ ext[r.ret.ref[i]].dirty_from < ext[r.ret.ref[j]].dirty_from
                      \/ /\ ext[r.ret.ref[i]].dirty_from = ext[r.ret.ref[j]].dirty_from
                         /\ ext[r.ret.ref[i]].paddr < ext[r.ret.ref[j]].paddr
        /\ SumLen(ext, r.ret.ref) <= max_bytes
        /\ r.txn[t].read_set = txn[t].read_set \union SeqToSet(r.ret.ref)
        /\ r.dirty = dirty /\ r.index = index /\ r.lru = lru

\* two extents became dirty in one commit: a flusher with budget for both
\* gets them by ascending paddr, one with budget for one gets the first,
\* and one asking up to their seq gets none
C16_Witness ==
  \E t \in Txns :
    /\ Idle(t) /\ Len(dirty) = 2
    /\ ext[dirty[1]].dirty_from = ext[dirty[2]].dirty_from
    /\ ext[dirty[1]].paddr < ext[dirty[2]].paddr
    /\ dirty[1] \notin txn[t].read_set
    /\ get_next_dirty_extents(Here, t, ext[dirty[1]].dirty_from + 1, 2).ret.ref = dirty
    /\ get_next_dirty_extents(Here, t, ext[dirty[1]].dirty_from + 1, 1).ret.ref = <<dirty[1]>>
    /\ get_next_dirty_extents(Here, t, ext[dirty[1]].dirty_from, 2).ret.ref = <<>>

\* ------------------------------------------------------------------ C17
\* the keys of the buffer
BackrefKeys == DOMAIN backrefs_by_seq

\* C17: trim_backref_bufs(s) on an empty buffer changes nothing; on a
\* buffer whose largest key is below s it fails its assertion (where
\* assertions are compiled in) and changes nothing; in every other case it
\* removes exactly the batches with key <= s and keeps every batch with
\* key > s with its entries; the two sets lose the entries of the removed
\* batches and no others, and nothing else changes
C17_TrimBackrefBufs ==
  \A trim_to \in TrimSeqs, asserts \in BOOLEAN :
    \E r \in {settle(trim_backref_bufs(Here, trim_to, asserts))} :
      /\ (BackrefKeys # {} /\ MaxKey(backrefs_by_seq) < trim_to /\ asserts)
            <=> r.ret.kind = "abort"
      /\ r.ret.kind = "abort" => r.backrefs_by_seq = backrefs_by_seq
      /\ r.ret.kind # "abort" =>
            /\ DOMAIN r.backrefs_by_seq = {k \in BackrefKeys : k > trim_to}
            /\ \A k \in DOMAIN r.backrefs_by_seq :
                  r.backrefs_by_seq[k] = backrefs_by_seq[k]
      /\ r.backref_inserted_set = {x \in backref_inserted_set : x.seq \in DOMAIN r.backrefs_by_seq}
      /\ r.backref_remove_set = {x \in backref_remove_set : x.seq \in DOMAIN r.backrefs_by_seq}
      /\ [r EXCEPT !.backrefs_by_seq = backrefs_by_seq,
                   !.backref_inserted_set = backref_inserted_set,
                   !.backref_remove_set = backref_remove_set,
                   !.ret = NoRet] = Here

\* three commits left three batches and a trim to the second removed the
\* first two: the third batch is the only one left, the sets hold entries
\* of the third commit only, and a trim above it would fail
C17_Witness ==
  /\ last_commit = MaxBatchSeq
  /\ BackrefKeys = {MaxBatchSeq}
  /\ backref_inserted_set \union backref_remove_set # {}
  /\ \A x \in backref_inserted_set \union backref_remove_set : x.seq = MaxBatchSeq
  /\ trim_backref_bufs(Here, MaxBatchSeq + 1, TRUE).ret.kind = "abort"
  /\ trim_backref_bufs(Here, MaxBatchSeq, TRUE).backrefs_by_seq = [k \in {} |-> {}]

\* ------------------------------------------------------------------ C18
\* C18: get_oldest_backref_dirty_from returns the smallest key of the
\* buffer, and nothing exactly when the buffer holds no batch; after a trim
\* to s that did not fail it returns nothing or a seq greater than s; with
\* the batches of three successive commits in the buffer (the seqs 10, 20,
\* 30 of the scenario are the seqs 1, 2, 3 here), after a trim to the second
\* it returns the third
C18_OldestBackrefDirtyFrom ==
  /\ BackrefKeys = {} <=> get_oldest_backref_dirty_from(Here) = nullopt
  /\ BackrefKeys # {} =>
        \E k \in BackrefKeys :
          /\ get_oldest_backref_dirty_from(Here) = <<k>>
          /\ \A j \in BackrefKeys : k <= j
  /\ \A trim_to \in TrimSeqs, asserts \in BOOLEAN :
        \E r \in {settle(trim_backref_bufs(Here, trim_to, asserts))} :
          r.ret.kind = "done" =>
            \E o \in {get_oldest_backref_dirty_from(r)} :
              o = nullopt \/ o[1] > trim_to
  /\ BackrefKeys = {1, 2, 3} =>
        get_oldest_backref_dirty_from(settle(trim_backref_bufs(Here, 2, TRUE))) = <<3>>

\* the three batches are in the buffer: the oldest is the first, after a
\* trim to the second it is the third, and after a trim to the third none
C18_Witness ==
  /\ BackrefKeys = {1, 2, 3}
  /\ get_oldest_backref_dirty_from(Here) = <<1>>
  /\ get_oldest_backref_dirty_from(trim_backref_bufs(Here, 2, TRUE)) = <<3>>
  /\ get_oldest_backref_dirty_from(trim_backref_bufs(Here, 3, TRUE)) = nullopt

\* ------------------------------------------------------------------ C19
\* C19: each of the two sets holds one entry per paddr, and for every range
\* the loops of the queries are defined for, get_backrefs_in_range(start,
\* end) returns exactly the entries of the inserted set, and
\* get_del_backrefs_in_range(start, end) exactly the entries of the remove
\* set, whose paddr p has start <= p < end, each with its paddr, laddr,
\* length, type and seq, and neither changes the sets, the buffer or
\* anything else
C19_BackrefsInRange ==
  /\ \A x, y \in backref_inserted_set : x.paddr = y.paddr => x = y
  /\ \A x, y \in backref_remove_set : x.paddr = y.paddr => x = y
  /\ \A start, end \in RangePaddrs :
        /\ start <= end =>
              /\ range_defined(backref_inserted_set, start, end)
              /\ range_defined(backref_remove_set, start, end)
        /\ range_defined(backref_inserted_set, start, end) =>
              \E r \in {settle(get_backrefs_in_range(Here, start, end))} :
                /\ r.ret.ref = {x \in backref_inserted_set :
                                  start <= x.paddr /\ x.paddr < end}
                /\ [r EXCEPT !.ret = NoRet] = Here
        /\ range_defined(backref_remove_set, start, end) =>
              \E r \in {settle(get_del_backrefs_in_range(Here, start, end))} :
                /\ r.ret.ref = {x \in backref_remove_set :
                                  start <= x.paddr /\ x.paddr < end}
                /\ [r EXCEPT !.ret = NoRet] = Here

\* both sets hold an entry at each paddr, with different logical addresses
\* among them: the range from the first paddr to the last returns the entry
\* at the first and not the one at the last, of either set
C19_Witness ==
  /\ {x.paddr : x \in backref_inserted_set} = Paddrs
  /\ {x.paddr : x \in backref_remove_set} = Paddrs
  /\ {x.laddr : x \in backref_inserted_set} = Laddrs
  /\ {x.paddr : x \in get_backrefs_in_range(Here, 1, MaxPaddr).ret.ref} = 1..(MaxPaddr - 1)
  /\ {x.paddr : x \in get_del_backrefs_in_range(Here, 1, MaxPaddr).ret.ref}
        = 1..(MaxPaddr - 1)
  /\ get_backrefs_in_range(Here, 1, MaxPaddr).ret.ref
        # get_del_backrefs_in_range(Here, 1, MaxPaddr).ret.ref

\* ------------------------------------------------------------------ C20
\* The cache under the scheduling the reactor gives it: an EPM read that was
\* issued ends, with the block or with an error, and a continuation whose
\* future is ready is run.
FairSpec ==
  /\ Spec
  /\ \A e \in Ids : WF_vars(ReadDone(e) \/ ReadFail(e))
  /\ \A t \in Txns : WF_vars(WaitDone(t))

\* task t is suspended on the io latch of an extent
Waiting(t) == call[t].kind = "wait"

\* C20: a task that waits on the io latch of an extent eventually resumes,
\* whether the read of the extent succeeds or fails: after a failed read the
\* latch is released, so neither the tasks that already wait nor a later
\* get_extent of the same paddr wait forever
C20_WaitersResume ==
  \A t \in Txns : Waiting(t) ~> ~Waiting(t)

\* the read of an extent has failed and a task waits on its latch: no read
\* of the extent is in flight, it is still CLEAN_PENDING in the index, and
\* its latch is set
C20_Witness ==
  \E t \in Txns :
    /\ Waiting(t)
    /\ call[t].e \notin reading
    /\ call[t].e \in index
    /\ ext[call[t].e].state = "CLEAN_PENDING"
    /\ ext[call[t].e].io

\* ------------------------------------------------------------------ C21
\* task t is suspended in get_extent on the latch of an extent that is read
\* from disk
WaitsForRead(t) ==
  /\ Waiting(t)
  /\ call[t].op \in {"get_extent", "get_extent_by_type"}
  /\ epm_reads[call[t].e] > 0

\* what holds of the read path in every state
ResumesAfterRead ==
  /\ \A t \in Txns :
        WaitsForRead(t) =>
          /\ ext[call[t].e].state \in {"CLEAN_PENDING", "CLEAN", "INVALID"}
          /\ (ext[call[t].e].state = "CLEAN_PENDING" \/ call[t].e \in reading)
                => ext[call[t].e].io /\ ~ENABLED WaitDone(t)
          /\ ENABLED WaitDone(t) =>
                \E r \in {settle(wait_io_done(Here, t))} :
                  /\ ext[call[t].e].state \in {"CLEAN", "INVALID"}
                  /\ r.ret = [kind |-> "ref", ref |-> call[t].e]
                  /\ r.ext[call[t].e] = ext[call[t].e]
  /\ \A e \in reading :
        \E r \in {settle(read_extent_done(Here, e))} :
          Reader(Here, e) # {} =>
            r.ext[e].state = "CLEAN" /\ r.ret = [kind |-> "ref", ref |-> e]
  /\ \A t \in Txns, p \in AllPaddrs, asserts \in BOOLEAN :
        (p \in Known(t) /\ CanRead(t, p)) =>
          \E r \in {settle(get_extent_txn(Here, t, p, asserts))} :
            r.ret.kind = "ref" => r.ext[r.ret.ref].state # "CLEAN_PENDING"

\* C21: a get_extent suspended on the latch of an extent read from disk
\* cannot resume while the read is in flight or the extent is CLEAN_PENDING
\* (its latch is set then); when it resumes the extent is CLEAN or INVALID,
\* and the call returns the reference to it, as it is, in either case; the
\* task that issued the read gets the extent CLEAN; no get_extent that
\* returns at once returns an extent that is CLEAN_PENDING; and an extent
\* invalidated after its latch was released stays INVALID while a
\* get_extent is still suspended on it, so that the call sees INVALID when
\* it resumes
C21_ResumeAfterRead ==
  /\ []ResumesAfterRead
  /\ [][\A t \in Txns :
          (/\ WaitsForRead(t) /\ WaitsForRead(t)' /\ call[t]' = call[t]
           /\ ext[call[t].e].state = "INVALID" /\ ~ext[call[t].e].io)
          => ext[call[t].e].state' = "INVALID"]_vars

\* a get_extent that suspended on the latch while the extent was read is
\* about to resume after the read completed and a commit invalidated the
\* extent: it gets the reference to the INVALID extent
C21_Witness ==
  \E t \in Txns :
    /\ WaitsForRead(t)
    /\ ext[call[t].e].state = "INVALID"
    /\ ENABLED WaitDone(t)
    /\ wait_io_done(Here, t).ret = [kind |-> "ref", ref |-> call[t].e]

C23_DuplicateForWriteOnce ==
  /\ \A t \in Txns, i \in Ids :
        (/\ Idle(t) /\ i \in Held(t) \ txn[t].retired_set
         /\ ~is_pending(Here, i) /\ mutating(Here, t, i) = {} /\ CanAlloc(Here)) =>
          \E r \in {settle(duplicate_for_write(Here, t, i))} :
            \E e \in {r.ret.ref} :
              /\ r.ret.kind = "ref" /\ ext[e].state = "NONE"
              /\ r.ext[e] = [ext[i] EXCEPT !.state = "MUTATION_PENDING",
                                           !.prior = i, !.io = FALSE]
              /\ r.txn[t].mutated_block_list = Append(txn[t].mutated_block_list, e)
              /\ i \in r.txn[t].read_set
              /\ [r EXCEPT !.ext[e] = NoExt,
                           !.txn[t].mutated_block_list = txn[t].mutated_block_list,
                           !.ret = NoRet] = Here
              /\ \A j \in {i, e} :
                    \E r2 \in {settle(duplicate_for_write(r, t, j))} :
                      /\ r2.ret = [kind |-> "ref", ref |-> e]
                      /\ [r2 EXCEPT !.ret = NoRet] = [r EXCEPT !.ret = NoRet]
  /\ \A t \in Txns :
        /\ \A i \in Ids : Cardinality(mutating(Here, t, i)) <= 1
        /\ \A n \in SeqToSet(txn[t].mutated_block_list) :
              /\ ext[n].prior \in txn[t].read_set
              /\ ext[n].paddr = ext[ext[n].prior].paddr
              /\ ext[n].len = ext[ext[n].prior].len
              /\ Idle(t) =>
                    \A j \in {n, ext[n].prior} \ txn[t].retired_set :
                      \E r \in {settle(duplicate_for_write(Here, t, j))} :
                        /\ r.ret = [kind |-> "ref", ref |-> n]
                        /\ [r EXCEPT !.ret = NoRet] = Here

\* t is mutating an indexed extent that another transaction has read too:
\* the copy is MUTATION_PENDING outside the index, and calling again on the
\* source returns the copy
C23_Witness ==
  \E t \in Txns : \E u \in Txns \ {t} :
    \E n \in SeqToSet(txn[t].mutated_block_list) :
      /\ Idle(t)
      /\ ext[n].state = "MUTATION_PENDING" /\ n \notin index
      /\ ext[n].prior \in index
      /\ ext[n].prior \in txn[u].read_set
      /\ duplicate_for_write(Here, t, ext[n].prior).ret.ref = n

\* ------------------------------------------------------------------ C24
\* C24: in every state an INVALID extent is outside the index, and a read
\* by a transaction that does not know the paddr (get_extent,
\* get_extent_by_type, get_extent_if_cached) never hands out or waits on an
\* INVALID extent; right after a placeholder promotion the placeholder is
\* INVALID and outside the index, where the promoted extent has its place;
\* right after complete_commit every retired extent that is not a
\* placeholder and the prior instance of every mutated extent are INVALID
\* and outside the index
C24_InvalidUnindexed ==
  /\ \A e \in Ids : ext[e].state = "INVALID" => e \notin index
  /\ \A t \in Txns, p \in Paddrs :
        (CanRead(t, p) /\ txn_get_extent(Here, t, p) = "ABSENT") =>
          /\ \A r \in {get_extent_txn(Here, t, p, TRUE), get_extent_by_type(Here, t, p),
                         get_extent_if_cached(Here, t, p)} :
                r.ret.ref # NoId =>
                  /\ r.ext[r.ret.ref].state # "INVALID"
                  /\ r.ret.ref \in r.index
          /\ (query_cache(Here, p) # NoId /\ is_placeholder(Here, query_cache(Here, p))) =>
                \E r \in {get_extent_txn(Here, t, p, TRUE)} :
                  /\ r.ext[query_cache(Here, p)].state = "INVALID"
                  /\ query_cache(Here, p) \notin r.index
                  /\ query_cache(r, p) = r.ret.ref
                  /\ \A e \in Ids : r.ext[e].state = "INVALID" => e \notin r.index
  /\ \A t \in Txns, final_block_start \in Paddrs, seq \in Seqs :
        CanCommit(t, final_block_start, seq) =>
          \E r \in {complete_commit(Here, t, final_block_start, seq)} :
            /\ \A e \in txn[t].retired_set :
                  ~is_placeholder(Here, e) =>
                    r.ext[e].state = "INVALID" /\ e \notin r.index
            /\ \A n \in SeqToSet(txn[t].mutated_block_list) :
                  /\ r.ext[ext[n].prior].state = "INVALID"
                  /\ ext[n].prior \notin r.index
                  /\ n \in r.index
            /\ \A e \in Ids : r.ext[e].state = "INVALID" => e \notin r.index

\* a commit replaced an extent by its mutated copy: the prior instance is
\* INVALID and still held by another transaction, and the lookup of its
\* paddr finds the copy
C24_Witness ==
  \E e \in Ids, u \in Txns :
    /\ ext[e].state = "INVALID"
    /\ e \in txn[u].read_set /\ txn[u].status = "open"
    /\ query_cache(Here, ext[e].paddr) # NoId
    /\ ext[query_cache(Here, ext[e].paddr)].prior = e

\* ------------------------------------------------------------------ C25
\* C25: touch_extent of a clean extent that is not a placeholder and is no
\* longer than the capacity leaves it at the most recently used end of the
\* LRU; a second touch changes nothing at all; and the touch of an extent
\* already on the LRU moves it to the end and changes nothing else: the
\* extents on the list, their relative order, the byte count, the index and
\* the extents that are referenced are the same (the caller's own reference
\* to the extent is not part of the state, so dangling is left aside)
C25_TouchMovesToTop ==
  \A e \in Ids :
    (is_clean(Here, e) /\ ~is_placeholder(Here, e) /\ ext[e].len <= capacity) =>
      \E r \in {settle(touch_extent(Here, e))} :
        /\ r.lru # <<>> /\ r.lru[Len(r.lru)] = e
        /\ settle(touch_extent(r, e)) = r
        /\ e \in SeqToSet(lru) =>
              /\ r.lru = Append(Without(lru, e), e)
              /\ r.contents = contents
              /\ Referenced(r) = Referenced(Here)
              /\ [r EXCEPT !.lru = lru, !.dangling = dangling] = Here

\* the LRU is full with two extents: the touch of the least recently used
\* one swaps them, and the touch of the most recently used one leaves the
\* list as it is
C25_Witness ==
  /\ Len(lru) = 2 /\ contents = capacity
  /\ touch_extent(Here, lru[1]).lru = <<lru[2], lru[1]>>
  /\ touch_extent(Here, lru[2]).lru = lru

\* ------------------------------------------------------------------ C26
\* the calls of the transactional reads
ReadOps == {"get_extent", "get_extent_by_type", "get_extent_if_cached"}

\* What holds of the first half of C26: a transactional read that is
\* suspended holds an extent of t's sets; a read of a paddr t does not know
\* that returns or suspends on an extent has put it into t's read set; the
\* resumption returns an extent of t's sets; and a transaction with an
\* INVALID extent in its read set does not pass prepare_record
C26_ReturnedInReadSet ==
  \A t \in Txns :
    /\ (call[t].op \in ReadOps /\ call[t].kind \in {"read", "wait"}) =>
          /\ call[t].e \in txn[t].read_set \union write_set(Here, t)
                            \union txn[t].retired_set
          /\ ENABLED WaitDone(t) =>
                wait_io_done(Here, t).ret = [kind |-> "ref", ref |-> call[t].e]
    /\ \A p \in Paddrs :
          (CanRead(t, p) /\ txn_get_extent(Here, t, p) = "ABSENT") =>
            \A r \in {get_extent_txn(Here, t, p, TRUE), get_extent_by_type(Here, t, p),
                       get_extent_if_cached(Here, t, p)} :
              r.ret.ref # NoId => r.ret.ref \in r.txn[t].read_set
    /\ (Idle(t) /\ \E e \in txn[t].read_set : ~is_valid(Here, e)) =>
          prepare_record(Here, t).ret.kind = "TransactionConflict"

\* C26: a transaction that passed prepare_record has no entry in its read
\* set for an extent that was never read: every CLEAN_PENDING extent of its
\* read set has its read in flight
C26_NoUnreadEntry ==
  \A t \in Txns :
    txn[t].status \in {"prepared", "committed"} =>
      \A e \in txn[t].read_set :
        ext[e].state = "CLEAN_PENDING" => e \in reading

\* the read t issued has failed: t is back from the call, and the extent,
\* never read, is in t's read set, where prepare_record takes it for valid
C26_Witness ==
  \E t \in Txns : \E e \in txn[t].read_set :
    /\ Idle(t)
    /\ ext[e].state = "CLEAN_PENDING" /\ e \notin reading
    /\ epm_reads[e] = 1
    /\ read_set_valid(Here, t)

\* ----------------------------------------------------------------- C27
\* C27: the LRU holds exactly one reference on every extent of its list and
\* none on any other extent.  add_to_lru of an extent that is not on the
\* list takes one reference, remove_from_lru of an extent on the list (and
\* every eviction of trim_to_capacity) releases one, add_to_lru of an
\* extent on the list and remove_from_lru of an extent off the list leave
\* the references alone, and the release inside move_to_top is never the
\* release of the extent's last reference.
OnLru(s, e) == IF e \in SeqToSet(s.lru) THEN 1 ELSE 0

C27_LruPins ==
  /\ \A e \in Ids : pins[e] = OnLru(Here, e)
  /\ dangling = {}
  /\ \A e \in Ids : (is_clean(Here, e) /\ ~is_placeholder(Here, e)) =>
       /\ \A r \in {add_to_lru(Here, e), remove_from_lru(Here, e),
                     move_to_top(Here, e)} :
            \A f \in Ids : r.pins[f] = OnLru(r, f)
       /\ is_linked(Here, e) =>
            /\ add_to_lru(Here, e).pins = pins
            /\ remove_from_lru(Here, e).pins = [pins EXCEPT ![e] = @ - 1]
            /\ move_to_top(Here, e).pins = pins
       /\ ~is_linked(Here, e) =>
            /\ remove_from_lru(Here, e).pins = pins
            /\ contents + ext[e].len <= capacity =>
                 add_to_lru(Here, e).pins = [pins EXCEPT ![e] = @ + 1]
       /\ (contents > capacity /\ lru # <<>>) =>
            trim_to_capacity_once(Here).pins = [pins EXCEPT ![Head(lru)] = @ - 1]

\* a transaction is about to read an extent that only the LRU references:
\* the read moves it to the top, where the LRU holds one reference again
C27_Witness ==
  \E t \in Txns : \E p \in Paddrs : \E e \in SeqToSet(lru) :
    /\ Idle(t) /\ CanRead(t, p) /\ ext[e].paddr = p
    /\ e \notin Referenced(intrusive_ptr_release(Here, e))
    /\ \E r \in {get_extent_txn(Here, t, p, TRUE)} :
         /\ r.lru = Append(Without(lru, e), e)
         /\ r.pins[e] = 1 /\ r.dangling = {}
         /\ e \in r.txn[t].read_set

\* ----------------------------------------------------------------- C28
\* C28: update_extent_from_transaction(t, extent) returns null exactly when
\* the extent is not a ROOT and t has retired an extent at its paddr, and
\* then changes nothing.  For a ROOT it returns t.root when t has one, and
\* otherwise puts the extent into t's read set, makes it t.root and returns
\* it.  For any other extent whose paddr t holds in its write set or read
\* set it returns t's extent at that paddr and changes nothing; when t does
\* not hold the paddr it puts the extent into t's read set and returns it.
\* The extent itself is never changed.
Unchanged(r) == [r EXCEPT !.ret = NoRet] = Here

C28_UpdateExtentFromTransaction ==
  \A t \in Txns : \A e \in index : Idle(t) =>
    \E r \in {update_extent_from_transaction(Here, t, e)} :
      LET p == ext[e].paddr
          retired == ~is_root(Here, e) /\ at(Here, txn[t].retired_set, p) # {}
          held == at(Here, write_set(Here, t) \union txn[t].read_set, p)
      IN /\ r.ret.kind = "null" <=> retired
         /\ r.ret.kind \in {"null", "ref"}
         /\ r.ext = ext /\ r.call[t] = NoCall
         /\ retired => Unchanged(r)
         /\ (is_root(Here, e) /\ txn[t].root # NoId) =>
              r.ret.ref = txn[t].root /\ Unchanged(r)
         /\ (is_root(Here, e) /\ txn[t].root = NoId) =>
              /\ r.ret.ref = e
              /\ [r EXCEPT !.ret = NoRet] =
                   [Here EXCEPT !.txn[t].read_set = @ \union {e}, !.txn[t].root = e]
              /\ update_extent_from_transaction(r, t, e).ret.ref = e
         /\ (~is_root(Here, e) /\ ~retired /\ held # {}) =>
              r.ret.ref \in held /\ Unchanged(r)
         /\ (~is_root(Here, e) /\ ~retired /\ held = {}) =>
              /\ r.ret.ref = e
              /\ [r EXCEPT !.ret = NoRet] =
                   [Here EXCEPT !.txn[t].read_set = @ \union {e}]

\* t has taken the cached ROOT as its root and has retired a cached extent
\* that is no ROOT: the first is handed back, the second is not
C28_Witness ==
  \E t \in Txns : \E e \in index : \E f \in index :
    /\ Idle(t) /\ is_root(Here, f) /\ txn[t].root = f
    /\ ~is_root(Here, e) /\ e \in txn[t].retired_set
    /\ update_extent_from_transaction(Here, t, e).ret.kind = "null"
    /\ update_extent_from_transaction(Here, t, f).ret = [kind |-> "ref", ref |-> f]

\* ----------------------------------------------------------------- C29
\* the parts of C29 that hold.  With a root that is not dirty the assertion
\* stops init_cached_extents before f is called.  Otherwise f is called
\* once with every extent that was in the index at the start, the dirty
\* ones among them, and with no other; remove_extent is called at most
\* once with an extent; an extent f reports not alive is out of the index
\* at the end, and one it reports alive is in the index at the end unless
\* the reads of f themselves replaced it.
Once(q, S) == SeqToSet(q) = S /\ Len(q) = Cardinality(S)

InitCallbacks == [index -> Answers]

C29_VisitsOnce ==
  \A t \in Txns : Idle(t) =>
    \A F \in InitCallbacks : \A asserts \in BOOLEAN :
      \E r \in {init_cached_extents(Here, t, F, asserts)} :
        IF asserts /\ ~root_is_dirty(Here)
        THEN /\ r.visited = <<>> /\ r.removed = <<>>
             /\ r.state.ret.kind = "abort"
             /\ [r.state EXCEPT !.ret = NoRet] = Here
        ELSE /\ Once(r.visited, index)
             /\ SeqToSet(dirty) \cap index \subseteq SeqToSet(r.visited)
             /\ Once(r.removed, {e \in index : ~F[e].is_alive})
             /\ \A e \in index :
                  /\ ~F[e].is_alive => e \notin r.state.index
                  /\ (F[e].is_alive /\ is_valid(r.state, e)) => e \in r.state.index
             /\ r.state.ret.kind = "done"

\* C29: init_cached_extents(t, f), called with a dirty root, never calls
\* remove_extent with an extent that is out of the index already, whatever
\* f reads through the cache and whatever it answers.
C29_RemovesOnce ==
  \A t \in Txns : (Idle(t) /\ root_is_dirty(Here)) =>
    \A F \in InitCallbacks : \A asserts \in BOOLEAN :
      init_cached_extents(Here, t, F, asserts).unindexed = {}

\* the root is dirty and a placeholder is in the index; f, called with the
\* placeholder, reads its paddr, so that a new extent takes the
\* placeholder's place in the index, and reports the placeholder not
\* alive: remove_extent is called with the placeholder, which is INVALID
\* and out of the index
C29_Witness ==
  \E t \in Txns : \E e \in index : \E F \in InitCallbacks :
    /\ Idle(t) /\ root_is_dirty(Here) /\ is_placeholder(Here, e)
    /\ F[e] = [reads |-> ext[e].paddr, is_alive |-> FALSE]
    /\ \A x \in index \ {e} : F[x] = [reads |-> 0, is_alive |-> TRUE]
    /\ \E r \in {init_cached_extents(Here, t, F, TRUE)} :
         /\ Once(r.visited, index)
         /\ r.removed = <<e>> /\ r.unindexed = {e}
         /\ ~is_valid(r.state, e)
         /\ \E n \in r.state.index \ index : r.state.ext[n].paddr = ext[e].paddr

\* ----------------------------------------------------------------- C30
\* C30: INVALID is absorbing: no step takes an extent whose state is
\* INVALID to another state (the extent may be destroyed).
C30_InvalidAbsorbing ==
  [][\A e \in Ids : ext[e].state = "INVALID" =>
        ext'[e].state \in {"INVALID", "DESTROYED"}]_vars

\* the part of C30 that holds: an INVALID extent with no EPM read in flight
\* stays INVALID
C30_InvalidAbsorbingUnread ==
  [][\A e \in Ids : (ext[e].state = "INVALID" /\ e \notin reading) =>
        ext'[e].state \in {"INVALID", "DESTROYED"}]_vars

\* an extent was invalidated while its EPM read was in flight: the
\* completion of the read makes it CLEAN
C30_Witness ==
  \E e \in reading :
    /\ ext[e].state = "INVALID" /\ ext[e].io
    /\ read_extent_done(Here, e).ext[e].state = "CLEAN"
    /\ ENABLED ReadDone(e)

\* ----------------------------------------------------------------- C31
\* C31: account_conflict(src1, src2), for sources below MAX and when no
\* assertion fails, adds one to the counter at conflict_index of the pair
\* and leaves every other counter and everything else as it is; the index
\* is below NUM_SRC_COMB, it is the same for (src1, src2) and (src2, src1),
\* and two different unordered pairs have different indices.
Counted(r) ==
  {i \in DOMAIN stats.trans_conflicts_by_srcs :
     r.stats.trans_conflicts_by_srcs[i] # stats.trans_conflicts_by_srcs[i]}

C31_AccountConflict ==
  \A src1 \in Srcs : \A src2 \in Srcs : \A asserts \in BOOLEAN :
    \E r \in {account_conflict(Here, src1, src2, asserts)} :
      /\ r.ret.kind = "abort" <=> (asserts /\ src1 = src2 /\ src1 # src("MUTATE"))
      /\ r.ret.kind = "abort" => [r EXCEPT !.ret = NoRet] = Here
      /\ r.ret.kind # "abort" =>
           /\ \E i \in 0..(NUM_SRC_COMB - 1) :
                /\ Counted(r) = {i}
                /\ r.stats.trans_conflicts_by_srcs[i] =
                     stats.trans_conflicts_by_srcs[i] + 1
                /\ Counted(account_conflict(Here, src2, src1, asserts)) = {i}
                /\ \A a \in Srcs : \A b \in Srcs :
                     {a, b} # {src1, src2} =>
                       Counted(account_conflict(Here, a, b, FALSE)) # {i}
           /\ [r EXCEPT !.ret = NoRet,
                        !.stats.trans_conflicts_by_srcs =
                           stats.trans_conflicts_by_srcs] = Here

\* a conflict of TRIM_BACKREF with MUTATE and one of MUTATE with
\* TRIM_BACKREF were accounted: one counter is at two, the others at zero
C31_Witness ==
  /\ stats.trans_conflicts_by_srcs[
        conflict_index(src("MUTATE"), src("TRIM_BACKREF"))] = 2
  /\ Conflicts(Here) = 2
  /\ Counted(account_conflict(Here, src("TRIM_BACKREF"), src("MUTATE"), TRUE)) =
       {conflict_index(src("MUTATE"), src("TRIM_BACKREF"))}

\* ----------------------------------------------------------------- C32
\* the parts of C32 that hold: update_tree_extents_num(type, delta) changes
\* the counter of the tree the type belongs to, by delta, and nothing else,
\* and with a type of no tree it changes nothing; the counters of the LBA
\* tree, the onode tree and the backref tree are never negative
TreeOf(type) ==
  IF type \in {"LADDR_INTERNAL", "LADDR_LEAF"} THEN "lba_tree_extents_num"
  ELSE IF type \in {"OMAP_INNER", "OMAP_LEAF"} THEN "omap_tree_extents_num"
  ELSE IF type = "ONODE_BLOCK_STAGED" THEN "onode_tree_extents_num"
  ELSE IF type \in {"BACKREF_INTERNAL", "BACKREF_LEAF"}
  THEN "backref_tree_extents_num"
  ELSE "none"

C32_OnlyItsCounter ==
  /\ stats.lba_tree_extents_num >= 0
  /\ stats.onode_tree_extents_num >= 0
  /\ stats.backref_tree_extents_num >= 0
  /\ \A type \in ExtentTypes : \A delta \in Deltas :
       \E r \in {update_tree_extents_num(Here, type, delta)} :
         /\ [r EXCEPT !.ret = NoRet, !.stats = stats] = Here
         /\ \A c \in DOMAIN stats :
              r.stats[c] = IF c = TreeOf(type) THEN stats[c] + delta ELSE stats[c]

\* C32: after any sequence of calls of update_tree_extents_num none of
\* which failed an assertion, the extent counters of the LBA tree, the omap
\* tree, the onode tree and the backref tree are all non-negative.
C32_TreeExtentsNonNegative ==
  \A n \in TreeExtentsNum(Here) : n >= 0

\* the omap counter is negative after calls that failed no assertion, and
\* a further decrement of it fails none either
C32_Witness ==
  /\ stats.omap_tree_extents_num < 0
  /\ stats.lba_tree_extents_num >= 0
  /\ update_tree_extents_num(Here, "OMAP_LEAF", 0 - 1).ret.kind = "done"

\* ------------------------------------------------------------------ C33
\* the entries owned by the batches still in the buffer
OwnedEntries(s) == UNION {s.backrefs_by_seq[k] : k \in DOMAIN s.backrefs_by_seq}

\* the entries a range scan or a lookup of the two sets can return
Reachable(s) ==
  UNION {IF range_defined(s.backref_inserted_set, start, end)
              /\ range_defined(s.backref_remove_set, start, end)
         THEN get_backrefs_in_range(s, start, end).ret.ref
                \union get_del_backrefs_in_range(s, start, end).ret.ref
         ELSE {} :
         start \in 0..MaxPaddr, end \in 0..(MaxPaddr + 1)}
    \union {get_del_backref(s, addr).ret.ref :
              addr \in {p \in Paddrs : backref_should_be_removed(s, p)}}

\* the entries the batches own are the entries the two sets link
OwnedAreLinked(s) ==
  OwnedEntries(s) = s.backref_inserted_set \union s.backref_remove_set

\* a batch whose entries all get linked: no entry of the same paddr is in
\* the set the entry goes to
Links(s, b) ==
  /\ \A x \in b.inserted : \A y \in s.backref_inserted_set : y.paddr # x.paddr
  /\ \A x \in b.removed : \A y \in s.backref_remove_set : y.paddr # x.paddr

====
